---- MODULE Spec2Model ----
(***************************************************************************)
(* A model of perscache: the persistent memoization decorator              *)
(* (perscache/cache.py), its serializers (perscache/serializers.py) and    *)
(* its file storage with least-recently-used eviction                      *)
(* (perscache/storage.py).                                                 *)
(*                                                                         *)
(* Modelling conventions                                                   *)
(*  - A Python value is a record [type, body]: type is the name of the     *)
(*    value's class, body a text that stands for its content.              *)
(*  - hashlib.md5 is modelled as an ideal digest: the digest of a byte     *)
(*    string is the byte string itself, so two keys are equal exactly when *)
(*    the hashed components are equal.                                     *)
(*  - Time is a natural number; a file's mtime/atime is the clock value at *)
(*    the moment of the write/read.                                        *)
(***************************************************************************)
EXTENDS Integers, Sequences, FiniteSets, TLC

(***************************************************************************)
(* Bounds of the model.                                                    *)
(***************************************************************************)
MaxCalls == 3      \* calls of wrapped callables in one behaviour
MaxTime == 2       \* the clock stops advancing at this value
MaxDur == 1        \* longest execution time of a wrapped callable
MaxArgs == 2       \* most positional arguments of a call (besides self)
MaxLen == 2        \* longest byte string written directly to the storage
MaxLimit == 3      \* largest max_size a storage is configured with

(***************************************************************************)
(* Python values.                                                          *)
(***************************************************************************)
VAbc == [type |-> "str", body |-> "abc"]
VTup == [type |-> "tuple", body |-> "1,2"]
VTup34 == [type |-> "tuple", body |-> "3,4"]
VNone == [type |-> "NoneType", body |-> ""]
VBytes == [type |-> "bytes", body |-> "abc"]

\* An exception, as what a call ends with instead of a returned value.
Exc(name) == [type |-> name, body |-> ""]
Inst1 == [type |-> "Calculator", body |-> "calc1"]
Temp1 == [type |-> "Celsius", body |-> "21.5"]    \* class Celsius(float)
Temp2 == [type |-> "Celsius", body |-> "30.0"]
First == [type |-> "Counter", body |-> "first"]      \* Counter("first")
Second == [type |-> "Counter", body |-> "second"]

ArgValues == {VAbc, VTup, VTup34}
Instances == {Inst1, Temp1, Temp2, First, Second}

\* id(obj) is the address of the object.  Two objects alive at the same time
\* have different addresses, whatever their values; an object created after
\* another one was destroyed may get the address of the destroyed one.
Addresses == {"0x1", "0x2"}

\* hasattr(type(obj), name): the attributes of the classes of the model.
hasattr(type, name) ==
    CASE type = "Calculator" -> name \in {"add", "fetch_data"}
      [] type = "Celsius" -> name \in {"describe"}
      [] type = "Counter" -> name \in {"snapshot"}
      [] type \in {"tuple", "list"} -> name \in {"count", "index"}
      [] type = "str" -> name \in {"count", "index", "format"}
      [] OTHER -> FALSE

\* isinstance(obj, types): the class of obj or one of its bases is in types.
Bases(type) == IF type = "Celsius" THEN {"Celsius", "float"} ELSE {type}
isinstance(obj, types) == Bases(obj.type) \cap types # {}

\* **kwargs is a dict, which keeps the keyword arguments in the order in which
\* the call site writes them: the sequence of its items <<name, value>>.
EmptyKwargs == <<>>

\* name in kwargs, and kwargs[name]
keys(kwargs) == {kwargs[k][1] : k \in 1..Len(kwargs)}
get(kwargs, name) ==
    kwargs[CHOOSE k \in 1..Len(kwargs) : kwargs[k][1] = name][2]

\* kwargs.items() as a set: what two dicts that are equal have in common.
ItemSet(kwargs) == {kwargs[k] : k \in 1..Len(kwargs)}

(***************************************************************************)
(* Serializers (serializers.py).  A serializer class has a name, an         *)
(* extension and a format, which stands for its dumps and loads functions. *)
(* Bytes are records [fmt, type, body, len].                               *)
(***************************************************************************)
make_serializer(class_name, ext, fmt) ==
    [name |-> class_name, extension |-> ext, fmt |-> fmt]

CloudPickleSerializer == make_serializer("CloudPickleSerializer", "pickle", "pickle")
PickleSerializer == make_serializer("PickleSerializer", "pickle", "pickle")
JSONSerializer == make_serializer("JSONSerializer", "json", "json")

\* Two serializer classes of an application that have the same class name.
CustomPickle == make_serializer("CustomSerializer", "bin", "pickle")
CustomJSON == make_serializer("CustomSerializer", "bin", "json")

\* json.dumps writes a tuple as an array, exactly as it writes a list.
JsonKind(type) ==
    CASE type = "str" -> "string"
      [] type \in {"tuple", "list"} -> "array"
      [] OTHER -> "null"

\* json.loads reads an array back as a list.
JsonType(kind) ==
    CASE kind = "string" -> "str"
      [] kind = "array" -> "list"
      [] OTHER -> "NoneType"

\* The number of bytes of an encoded value (a stand-in for the real length:
\* a pickle is longer than the JSON text of the same value).
EncodedLen(fmt, body) ==
    (IF fmt = "json" THEN 1 ELSE 2) + (IF body = "" THEN 0 ELSE 1)

\* json.dumps raises TypeError for bytes; pickle takes every value.
Serializable(ser, value) == ser.fmt # "json" \/ value.type # "bytes"

dumps(ser, value) ==
    IF ser.fmt = "json"
    THEN [fmt |-> "json", type |-> JsonKind(value.type), body |-> value.body,
          len |-> EncodedLen("json", value.body)]
    ELSE [fmt |-> "pickle", type |-> value.type, body |-> value.body,
          len |-> EncodedLen("pickle", value.body)]

\* Bytes written in another format cannot be decoded: json.loads and
\* pickle.loads raise, and the exception leaves the wrapper.
DecodeError == Exc("DecodeError")

loads(ser, data) ==
    IF ser.fmt # data.fmt THEN DecodeError
    ELSE IF ser.fmt = "json"
         THEN [type |-> JsonType(data.type), body |-> data.body]
         ELSE [type |-> data.type, body |-> data.body]

(***************************************************************************)
(* Wrapped callables.  A wrapper is the callable (name, class, source      *)
(* text, declared parameters, the parameter whose value the body returns)  *)
(* together with the decorator arguments of Cache.__call__.                *)
(* A ttl of 0 stands for ttl=None.                                         *)
(***************************************************************************)
P(name) == [name |-> name, kind |-> "pos"]
VarP(name) == [name |-> name, kind |-> "var"]
KwOnly(name) == [name |-> name, kind |-> "kwonly"]

Deco(name, cls, source, params, returns, ignore, serializer, ttl, per_instance) ==
    [name |-> name, cls |-> cls, source |-> source, params |-> params,
     returns |-> returns, ignore |-> ignore, serializer |-> serializer,
     ttl |-> ttl, per_instance |-> per_instance]

SrcGetData == "def get_data(key): return key"
SrcGetDataChanged == "def get_data(key): print('changed'); return key"
SrcGetDataIgnore == "def get_data(key, ignore_this): return key"
SrcVarArgs == "def last_of(*args): return args[-1] if args else None"
SrcTagged == "def tagged(*args, tag): return tag"
SrcAdd == "def add(self, a): return a"
SrcCount == "def count(key): return key"
SrcDescribe == "def describe(self, unit): return unit"
SrcFetchData == "def fetch_data(self, key): return key"
SrcToBytes == "def to_bytes(key): return b'abc'"
SrcFetch == "def fetch(*, key): return requests.get(key).text"
SrcLoad == "def load(key): return key"
SrcGetDataAsync == "async def get_data(key): return key"
SrcFetchAsync == "async def fetch(*, key): return (await client.get(key)).text"

GetData == Deco("get_data", "", SrcGetData, <<P("key")>>, "key", {},
                CloudPickleSerializer, 0, TRUE)
GetDataChanged == Deco("get_data", "", SrcGetDataChanged, <<P("key")>>, "key", {},
                CloudPickleSerializer, 0, TRUE)
GetDataPickle == Deco("get_data", "", SrcGetData, <<P("key")>>, "key", {},
                PickleSerializer, 0, TRUE)
GetDataJSON == Deco("get_data", "", SrcGetData, <<P("key")>>, "key", {},
                JSONSerializer, 0, TRUE)
GetDataCustomPickle == Deco("get_data", "", SrcGetData, <<P("key")>>, "key", {},
                CustomPickle, 0, TRUE)
GetDataCustomJSON == Deco("get_data", "", SrcGetData, <<P("key")>>, "key", {},
                CustomJSON, 0, TRUE)
GetDataTTL == Deco("get_data", "", SrcGetData, <<P("key")>>, "key", {},
                CloudPickleSerializer, 1, TRUE)
GetDataIgnore == Deco("get_data", "", SrcGetDataIgnore,
                <<P("key"), P("ignore_this")>>, "key", {"ignore_this"},
                CloudPickleSerializer, 0, TRUE)
LastOf == Deco("last_of", "", SrcVarArgs, <<VarP("args")>>, "args", {},
                CloudPickleSerializer, 0, TRUE)
Tagged == Deco("tagged", "", SrcTagged, <<VarP("args"), KwOnly("tag")>>, "tag",
                {"args"}, CloudPickleSerializer, 0, TRUE)
Add == Deco("add", "Calculator", SrcAdd, <<P("self"), P("a")>>, "a", {},
                CloudPickleSerializer, 0, TRUE)

\* A method of a class that derives from float.
Describe == Deco("describe", "Celsius", SrcDescribe, <<P("self"), P("unit")>>,
                "unit", {}, CloudPickleSerializer, 0, TRUE)

\* Methods decorated with per_instance=False.
FetchData == Deco("fetch_data", "Calculator", SrcFetchData,
                <<P("self"), P("key")>>, "key", {}, CloudPickleSerializer, 0, FALSE)
DescribeShared == Deco("describe", "Celsius", SrcDescribe, <<P("self"), P("unit")>>,
                "unit", {}, CloudPickleSerializer, 0, FALSE)

\* A callable whose value JSON cannot encode.
ToBytesJSON == Deco("to_bytes", "", SrcToBytes, <<P("key")>>, "", {},
                JSONSerializer, 0, TRUE)

\* A callable that may raise, and a callable that is called while the
\* storage may fail (a directory that cannot be read, a full disk).
Fetch == Deco("fetch", "", SrcFetch, <<KwOnly("key")>>, "key", {},
                CloudPickleSerializer, 1, TRUE)
Load == Deco("load", "", SrcLoad, <<P("key")>>, "key", {},
                CloudPickleSerializer, 0, TRUE)

\* Coroutine functions.
GetDataAsync == Deco("get_data", "", SrcGetDataAsync, <<P("key")>>, "key", {},
                CloudPickleSerializer, 0, TRUE)
FetchAsync == Deco("fetch", "", SrcFetchAsync, <<KwOnly("key")>>, "key", {},
                CloudPickleSerializer, 0, TRUE)

\* @cache(ttl=...) on a coroutine function
FetchAsyncTTL == Deco("fetch", "", SrcFetchAsync, <<KwOnly("key")>>, "key", {},
                CloudPickleSerializer, 1, TRUE)

\* @cache(ignore="key") def get_data(key)
GetDataIgnoreKey == Deco("get_data", "", SrcGetData, <<P("key")>>, "key", {"key"},
                CloudPickleSerializer, 0, TRUE)

\* A free function that has the name of a method of list and of tuple.
Count == Deco("count", "", SrcCount, <<P("key")>>, "key", {},
                CloudPickleSerializer, 0, TRUE)

Wrappers == {GetData, GetDataChanged, GetDataPickle, GetDataJSON, GetDataTTL,
             GetDataCustomPickle, GetDataCustomJSON,
             GetDataIgnore, LastOf, Tagged, Add, Count, Describe,
             FetchData, DescribeShared, ToBytesJSON, Fetch,
             GetDataAsync, FetchAsync, GetDataIgnoreKey, Load}

\* A callable whose value for the same argument changes from one execution
\* to the next (what a ttl is for): None while the feed has nothing under
\* key, then what it has, which the model takes to be key itself.
SrcLatest == "def latest(*, key): return feed.get(key)"
Latest == Deco("latest", "", SrcLatest, <<KwOnly("key")>>, "key", {},
                CloudPickleSerializer, 0, TRUE)

\* A callable decorated with the JSON serializer whose value is at times one
\* that json.dumps does not take (bytes), and a ttl.
SrcRender == "def render(*, key): return templates[key].render()"
Render == Deco("render", "", SrcRender, <<KwOnly("key")>>, "key", {},
                JSONSerializer, 1, TRUE)

\* A method whose value depends on the instance it is called on.
SrcSnapshot == "def snapshot(self, n): return self"
Snapshot == Deco("snapshot", "Counter", SrcSnapshot, <<P("self"), P("n")>>, "self",
                {}, CloudPickleSerializer, 0, TRUE)

\* is_async(fn): inspect.iscoroutinefunction(fn), which "async def" makes.
is_async(w) == w.source \in {SrcGetDataAsync, SrcFetchAsync}

\* What can go wrong around a call: the callable raises ("fn"), storage.read
\* raises PermissionError ("read"), write_file raises OSError ("write").
Faults == {"none", "fn", "read", "write"}
FaultsOf(w) ==
    CASE w.source \in {SrcFetch, SrcFetchAsync} -> {"none", "fn"}
      [] w.source = SrcLoad -> {"none", "read", "write"}
      [] OTHER -> {"none"}

\* The decorated callables of one program.
Programs == {{GetData}, {GetDataJSON}, {GetDataTTL}, {Add}, {Count}}

(***************************************************************************)
(* Python's binding of a call to the declared parameters, which decides    *)
(* the calls that are legal and the value the body returns.                *)
(***************************************************************************)
NPos(params) == Cardinality({i \in 1..Len(params) : params[i].kind = "pos"})
HasVar(params) == \E i \in 1..Len(params) : params[i].kind = "var"

ValidCall(params, args, kwargs) ==
    /\ Len(args) <= NPos(params) \/ HasVar(params)
    /\ \A k \in keys(kwargs) :
          \E i \in 1..Len(params) :
             /\ params[i].name = k
             /\ \/ params[i].kind = "pos" /\ i > Len(args)
                \/ params[i].kind = "kwonly"
    /\ \A i \in 1..Len(params) :
          /\ params[i].kind = "pos" =>
                i <= Len(args) \/ params[i].name \in keys(kwargs)
          /\ params[i].kind = "kwonly" => params[i].name \in keys(kwargs)

\* fn(*args, **kwargs): the value returned by the (pure) body.
Body(w, args, kwargs) ==
    IF w.returns = "" THEN VBytes ELSE
    LET i == CHOOSE j \in 1..Len(w.params) : w.params[j].name = w.returns
    IN  CASE w.params[i].kind = "var" ->
                IF Len(args) > NPos(w.params) THEN args[Len(args)] ELSE VNone
          [] w.params[i].kind = "kwonly" -> get(kwargs, w.params[i].name)
          [] OTHER ->
                IF i <= Len(args) THEN args[i] ELSE get(kwargs, w.params[i].name)

\* The values an execution of fn(*args, **kwargs) may return.
Results(w, args, kwargs) ==
    CASE w.source = SrcLatest -> {VNone, Body(w, args, kwargs)}
      [] w.source = SrcRender -> {VBytes, Body(w, args, kwargs)}
      [] OTHER -> {Body(w, args, kwargs)}

(***************************************************************************)
(* Key derivation (cache.py).                                              *)
(***************************************************************************)
NoneId == "None"

\* The data handed to hash_it: each datum stands for its cloudpickle bytes.
StrDatum(text) == [pickled |-> "str", text |-> text, items |-> <<>>]
DictDatum(items) == [pickled |-> "dict", text |-> "", items |-> items]

\* md5 over the concatenated pickles, as an ideal (collision-free) digest.
hash_it(data) == [md5 |-> data]

\* A faulty loop, which takes the positional arguments under their
\* parameters and then walks kwargs itself, so that the keyword arguments
\* enter the mapping in the order of the call site.
arg_dict_CallOrder(params, args, kwargs, ignore_set, start_idx, per_instance) ==
    LET Kept(name) == name \notin ignore_set /\ (per_instance \/ name # "self")
        Hashed(i) == i > start_idx /\ i <= Len(args) /\ Kept(params[i].name)
        sel == SelectSeq([i \in 1..Len(params) |-> i], Hashed)
        Written(item) == Kept(item[1])
    IN  [j \in 1..Len(sel) |-> <<params[sel[j]].name, args[sel[j]]>>]
           \o SelectSeq(kwargs, Written)

\* The loop of _get_hash over params[start_idx:]: the i-th declared parameter
\* (counted from 1) takes args[i] when the call has that many positional
\* arguments, else the keyword argument of its name, else it is left out.
arg_dict(params, args, kwargs, ignore_set, start_idx, per_instance) ==
    LET Hashed(i) ==
            /\ i > start_idx
            /\ params[i].name \notin ignore_set
            /\ per_instance \/ params[i].name # "self"
            /\ i <= Len(args) \/ params[i].name \in keys(kwargs)
        sel == SelectSeq([i \in 1..Len(params) |-> i], Hashed)
    IN  [j \in 1..Len(sel) |->
            <<params[sel[j]].name,
              IF sel[j] <= Len(args) THEN args[sel[j]]
                                     ELSE get(kwargs, params[sel[j]].name)>>]

\* A faulty _get_hash, which leaves the source text out of the hash.
_get_hash_NoSource(fn, args, kwargs, serializer, ignore, instance_id, per_instance) ==
    LET start_idx == IF instance_id # NoneId THEN 1 ELSE 0
        d == arg_dict(fn.params, args, kwargs, ignore, start_idx, per_instance)
        hash_components == <<StrDatum(serializer.name), DictDatum(d)>>
    IN  IF instance_id # NoneId /\ per_instance
        THEN hash_it(<<StrDatum(instance_id)>> \o hash_components)
        ELSE hash_it(hash_components)

_get_hash(fn, args, kwargs, serializer, ignore, instance_id, per_instance) ==
    LET start_idx == IF instance_id # NoneId THEN 1 ELSE 0
        d == arg_dict(fn.params, args, kwargs, ignore, start_idx, per_instance)
        hash_components ==
            <<StrDatum(fn.source), StrDatum(serializer.name), DictDatum(d)>>
    IN  IF instance_id # NoneId /\ per_instance
        THEN hash_it(<<StrDatum(instance_id)>> \o hash_components)
        ELSE hash_it(hash_components)

\* f"{class_name}.{fn.__name__}-{key}.{extension}" for a bound method,
\* f"{fn.__name__}-{key}.{extension}" otherwise.
_get_filename(fn, ismethod, class_name, key, serializer) ==
    [cls |-> IF ismethod THEN class_name ELSE "", name |-> fn.name,
     key |-> key, extension |-> serializer.extension]

is_instance_method(fn, args) ==
    /\ Len(args) > 0
    /\ hasattr(args[1].type, fn.name)
    /\ ~isinstance(args[1], {"str", "bytes", "int", "float", "bool"})

\* The path under which wrapped(*args, **kwargs) looks its result up; addr is
\* id(args[0]).
KeyPath(w, args, kwargs, addr) ==
    LET ism == is_instance_method(w, args)
        instance_id == IF ism /\ w.per_instance THEN addr ELSE NoneId
        key == IF ism
               THEN _get_hash(w, args, kwargs, w.serializer, w.ignore,
                              instance_id, w.per_instance)
               ELSE _get_hash(w, args, kwargs, w.serializer, w.ignore,
                              NoneId, TRUE)
    IN  _get_filename(w, ism, IF ism THEN args[1].type ELSE "", key, w.serializer)

\* A faulty deadline, now + ttl: every entry is older than it.
deadline_Ahead(w, now_) ==
    IF w.ttl # 0 THEN [set |-> TRUE, at |-> now_ + w.ttl]
                 ELSE [set |-> FALSE, at |-> 0]

\* _CachedFunction.deadline: now - ttl, or None without a ttl.
deadline(w, now_) ==
    IF w.ttl # 0 THEN [set |-> TRUE, at |-> now_ - w.ttl]
                 ELSE [set |-> FALSE, at |-> 0]

(***************************************************************************)
(* File storage (storage.py).  The namespace is a function from paths to   *)
(* entries [data, mtime, atime].                                           *)
(***************************************************************************)
NoData == [fmt |-> "", type |-> "", body |-> "", len |-> 0]

\* LocalFileStorage.mtime: path.stat() raises FileNotFoundError for a missing
\* file.
mtime(fs, path) ==
    IF path \in DOMAIN fs THEN [status |-> "ok", at |-> fs[path].mtime]
                          ELSE [status |-> "FileNotFoundError", at |-> 0]

\* path.read_bytes(), which raises FileNotFoundError for a missing file.
read_bytes(fs, path) ==
    IF path \in DOMAIN fs THEN [status |-> "ok", data |-> fs[path].data]
                          ELSE [status |-> "FileNotFoundError", data |-> NoData]

\* A faulty read, for which an entry modified at the deadline is expired.
read_ExpiredAtDeadline(fs, path, dl) ==
    IF dl.set /\ mtime(fs, path).status # "ok"
    THEN [status |-> mtime(fs, path).status, data |-> NoData]
    ELSE IF dl.set /\ mtime(fs, path).at <= dl.at
         THEN [status |-> "CacheExpired", data |-> NoData]
         ELSE read_bytes(fs, path)

\* FileStorage.read: with a deadline, mtime() is asked first and raises for a
\* missing file; an entry modified before the deadline is expired; then
\* read_file().
read(fs, path, dl) ==
    IF dl.set /\ mtime(fs, path).status # "ok"
    THEN [status |-> mtime(fs, path).status, data |-> NoData]
    ELSE IF dl.set /\ mtime(fs, path).at < dl.at
         THEN [status |-> "CacheExpired", data |-> NoData]
         ELSE read_bytes(fs, path)

\* The effect of reading a file on its access time: whether the file system
\* records the access depends on how it is mounted (touch).
read_file(fs, path, t, touch) ==
    IF touch THEN [fs EXCEPT ![path].atime = t] ELSE fs

RECURSIVE TotalSize(_)
TotalSize(fs) ==
    IF DOMAIN fs = {} THEN 0
    ELSE LET p == CHOOSE q \in DOMAIN fs : TRUE
         IN  fs[p].data.len + TotalSize([q \in DOMAIN fs \ {p} |-> fs[q]])

\* LocalFileStorage.size(location) is st_size of the directory itself.  What
\* a file system reports there is its own business: a fixed number (stat >= 0)
\* or the bytes below the directory (stat = -1).
size_of_location(fs, stat) == IF stat = -1 THEN TotalSize(fs) ELSE stat
DirStats == {-1, 0, 2}

\* A faulty sort, without reverse=True: the least recently accessed first.
SortedByAtime_OldestFirst(fs) ==
    LET n == Cardinality(DOMAIN fs)
    IN  {o \in [1..n -> DOMAIN fs] :
            /\ \A j, k \in 1..n : j # k => o[j] # o[k]
            /\ \A j, k \in 1..n : j < k => fs[o[j]].atime <= fs[o[k]].atime}

\* sorted(iterdir(location), key=atime, reverse=True): the entries with the
\* most recently accessed first; entries of equal atime in any order.
SortedByAtime(fs) ==
    LET n == Cardinality(DOMAIN fs)
    IN  {o \in [1..n -> DOMAIN fs] :
            /\ \A j, k \in 1..n : j # k => o[j] # o[k]
            /\ \A j, k \in 1..n : j < k => fs[o[j]].atime >= fs[o[k]].atime}

\* The while loop of delete_least_recently_used; i counts from 0 as in the
\* code, files[i] is order[i + 1].
RECURSIVE lru_loop(_, _, _, _, _)
lru_loop(fs, order, target_size, i, size_) ==
    IF size_ < target_size /\ i < Len(order)
    THEN lru_loop(fs, order, target_size, i + 1, size_ + fs[order[i + 1]].data.len)
    ELSE i

\* for f in files[i - 1:]: delete(f).  With i = 0 the slice files[-1:] is
\* the last file (no file of an empty list).
delete_least_recently_used(fs, target_size, order) ==
    LET i == lru_loop(fs, order, target_size, 0, 0)
        from == IF i = 0 THEN Len(order) ELSE i
        doomed == {order[k] : k \in (from..Len(order)) \cap (1..Len(order))}
    IN  [p \in DOMAIN fs \ doomed |-> fs[p]]

\* write_file: the bytes replace the entry; a new file is born with
\* atime = mtime = now, an overwritten file keeps its atime.
write_file(fs, path, data, t) ==
    [p \in DOMAIN fs \cup {path} |->
        IF p = path
        THEN [data |-> data, mtime |-> t,
              atime |-> IF path \in DOMAIN fs THEN fs[path].atime ELSE t]
        ELSE fs[p]]

\* FileStorage.write; max_size = 0 stands for max_size=None.
Evicts(fs, data, msize, stat) ==
    msize # 0 /\ size_of_location(fs, stat) + data.len > msize

\* A faulty write, which runs the eviction pass after write_file.
write_EvictAfter(fs, path, data, t, msize, stat, order) ==
    LET written == write_file(fs, path, data, t)
    IN  IF Evicts(fs, data, msize, stat)
        THEN delete_least_recently_used(written, msize,
                 CHOOSE o \in SortedByAtime(written) : TRUE)
        ELSE written

write(fs, path, data, t, msize, stat, order) ==
    write_file(IF Evicts(fs, data, msize, stat)
               THEN delete_least_recently_used(fs, msize, order)
               ELSE fs,
               path, data, t)

\* LocalFileStorage.iterdir: path.iterdir() if path.exists() else []
iterdir(fs, exists) == IF exists THEN DOMAIN fs ELSE {}

\* LocalFileStorage.delete: path.unlink()
delete(fs, f) == [p \in DOMAIN fs \ {f} |-> fs[p]]

\* for f in self.iterdir(self.location): self.delete(f)
RECURSIVE delete_each(_, _)
delete_each(fs, todo) ==
    IF todo = {} THEN fs
    ELSE LET f == CHOOSE g \in todo : TRUE
         IN  delete_each(delete(fs, f), todo \ {f})

\* A faulty rmdir, without the test path.exists().
rmdir_Unguarded(fs, exists) ==
    CASE ~exists -> [exists |-> FALSE, status |-> "FileNotFoundError"]
      [] DOMAIN fs # {} -> [exists |-> TRUE, status |-> "OSError"]
      [] OTHER -> [exists |-> FALSE, status |-> "ok"]

\* LocalFileStorage.rmdir: if path.exists(): path.rmdir().  Path.rmdir raises
\* OSError for a directory that is not empty.
rmdir(fs, exists) ==
    CASE ~exists -> [exists |-> FALSE, status |-> "ok"]
      [] DOMAIN fs # {} -> [exists |-> TRUE, status |-> "OSError"]
      [] OTHER -> [exists |-> FALSE, status |-> "ok"]

\* A faulty clear, which removes the directory and leaves its files.
FileStorage_clear_KeepsFiles(fs, exists) ==
    [files |-> fs, exists |-> FALSE, status |-> "ok"]

\* FileStorage.clear: what it leaves of the namespace, and how it ends.
FileStorage_clear(fs, exists) ==
    LET left == delete_each(fs, iterdir(fs, exists))
        r == rmdir(left, exists)
    IN  [files |-> left, exists |-> r.exists, status |-> r.status]

(***************************************************************************)
(* The state.                                                              *)
(*   program            the wrapped callables of this run                  *)
(*   files, dir_exists  the namespace of the storage and its directory     *)
(*   max_size, dir_stat the configured max_size (0: None) and what the     *)
(*                      file system reports as size of the directory       *)
(*   now                the clock                                          *)
(*   largest            the size of the largest entry written so far       *)
(*   log                the calls of wrapped callables that have ended, in *)
(*                      the order of their ends: what was called, the path *)
(*                      derived, the times of the call and of its end,     *)
(*                      what the lookup found, whether no other call was   *)
(*                      in flight when it began, whether the callable was  *)
(*                      executed, and the value returned or the exception  *)
(*                      raised                                             *)
(*   inflight           per task, the call of a coroutine function that is *)
(*                      suspended at "await fn(...)"                       *)
(*   decorated          the applications of the decorator made so far,     *)
(*                      each with its outcome                              *)
(*   optimized          the interpreter runs with -O (__debug__ is False)  *)
(***************************************************************************)
VARIABLES program, files, dir_exists, max_size, dir_stat, now, largest, log,
          inflight, decorated, optimized

vars == <<program, files, dir_exists, max_size, dir_stat, now, largest, log,
          inflight, decorated, optimized>>

EmptyFiles == [p \in {} |-> [data |-> NoData, mtime |-> 0, atime |-> 0]]

Tasks == {"t1", "t2"}
NoTasks == [t \in {} |-> [status |-> ""]]

\* The calls of a wrapper that Python accepts.  A method is called through
\* an instance of its class, which arrives as the first positional argument.
\* id is the address of the first positional argument: of the instance in a
\* call of a method, and of the argument in the calls that the wrapper holds
\* for calls of a method.
ArgSeqs == UNION {[1..k -> ArgValues] : k \in 0..MaxArgs}
ParamNames(w) == {w.params[i].name : i \in 1..Len(w.params)}

\* The keyword arguments a call site can write with these names: each name at
\* most once, in any order.
KwargsOver(names) ==
    UNION {{kw \in [1..n -> names \X ArgValues] :
               \A j, k \in 1..n : j # k => kw[j][1] # kw[k][1]} :
           n \in 0..Cardinality(names)}
Calls(w) ==
    {c \in [args : IF w.cls = "" THEN ArgSeqs
                   ELSE {<<inst>> \o rest :
                            inst \in {o \in Instances : o.type = w.cls},
                            rest \in ArgSeqs},
            kwargs : KwargsOver(ParamNames(w)),
            id : Addresses \cup {NoneId}] :
        /\ ValidCall(w.params, c.args, c.kwargs)
        /\ c.id = NoneId <=> w.cls = "" /\ ~is_instance_method(w, c.args)}

\* The arguments the decorator is applied with: the callable, ignore and ttl
\* (ttl=None is not given; secs is the timedelta otherwise).
Functions == {GetData, GetDataIgnore}
IgnoreArgs == {{}, {"ignore_this"}, {"abc"}}
TtlArgs == {[given |-> FALSE, secs |-> 0]}
              \cup {[given |-> TRUE, secs |-> k] : k \in {-1, 0, 1}}

\* _CachedFunction(cache, ignore, serializer, storage, ttl, per_instance)(fn)
_CachedFunction(fn, ignore, ttl) ==
    [fn EXCEPT !.ignore = ignore, !.ttl = IF ttl.given THEN ttl.secs ELSE 0]

CallTable ==
    [w \in Wrappers \cup {Latest, Snapshot, Render, FetchAsyncTTL}
               \cup {_CachedFunction(fn, ignore, ttl) :
                        fn \in Functions, ignore \in IgnoreArgs, ttl \in TtlArgs}
        |-> Calls(w)]

\* Only a ttl makes the wrapper read the clock, and only an eviction pass
\* reads access times: in every other configuration the passing of time
\* cannot be observed and the clock is left standing, and without a max_size
\* the access times are left as they are.
AtimeObserved == max_size # 0
ClockObserved == AtimeObserved \/ \E w \in program : w.ttl # 0

Init ==
    /\ program \in Programs
    /\ files = EmptyFiles
    /\ dir_exists = FALSE
    /\ max_size = 0
    /\ dir_stat = 0
    /\ now = 0
    /\ largest = 0
    /\ log = <<>>
    /\ inflight = NoTasks
    /\ decorated = {}
    /\ optimized = FALSE

\* Cache._get: storage.read, then serializer.loads.
_get(fs, path, ser, dl, fault) ==
    LET r == IF fault = "read"
             THEN [status |-> "PermissionError", data |-> NoData]
             ELSE read(fs, path, dl)
    IN  IF r.status # "ok"
        THEN [status |-> r.status, value |-> Exc(r.status)]
        ELSE IF loads(ser, r.data) = DecodeError
             THEN [status |-> "DecodeError", value |-> DecodeError]
             ELSE [status |-> "ok", value |-> loads(ser, r.data)]

\* A faulty except clause, which intercepts every exception.
Intercepted_Any(status) == status # "ok"

\* except (FileNotFoundError, CacheExpired)
Intercepted(status) == status \in {"FileNotFoundError", "CacheExpired"}

\* A faulty hit, which renews the entry (a sliding lifetime): the file read
\* gets the time of the read as its modification time.
Return_Renews(call, g, touch) ==
    /\ touch => g.status \in {"ok", "DecodeError"}
    /\ files' = IF g.status = "ok"
                THEN [files EXCEPT ![call.path].mtime = now, ![call.path].atime = now]
                ELSE files
    /\ UNCHANGED <<dir_exists, largest>>
    /\ log' = Append(log, call @@ [executed |-> FALSE, ret |-> g.value])

\* The end of a call whose lookup gave no value: the result of _get on a
\* hit, the exception of _get otherwise.  A file that was read may have its
\* access time updated.
Return(call, g, touch) ==
    /\ touch => g.status \in {"ok", "DecodeError"}
    /\ files' = IF touch THEN read_file(files, call.path, now, touch) ELSE files
    /\ UNCHANGED <<dir_exists, largest>>
    /\ log' = Append(log, call @@ [executed |-> FALSE, ret |-> g.value])

\* A faulty except branch, which stores None when fn has raised.
Store_AfterFailure(call, value, t, fault) ==
    /\ files' = write_file(files, call.path,
                     dumps(call.w.serializer, IF fault = "fn" THEN VNone ELSE value), t)
    /\ dir_exists' = TRUE
    /\ largest' = largest
    /\ log' = Append(log, call @@ [executed |-> TRUE,
                        ret |-> IF fault = "fn" THEN Exc("CallableError") ELSE value])

\* A faulty except branch, in which the entry is opened for writing before
\* the value is encoded into it: dumps raises over a file created or
\* truncated.
Store_DumpsIntoFile(call, value, t, fault) ==
    LET ser == call.w.serializer
        ok == fault = "none" /\ Serializable(ser, value)
    IN  /\ files' = write_file(files, call.path,
                        IF ok THEN dumps(ser, value) ELSE NoData, t)
        /\ dir_exists' = TRUE
        /\ largest' = largest
        /\ log' = Append(log, call @@ [executed |-> TRUE,
                            ret |-> CASE ok -> value
                                      [] fault = "fn" -> Exc("CallableError")
                                      [] fault = "write" -> Exc("OSError")
                                      [] OTHER -> Exc("TypeError")])

\* The except branch: value = fn(...) has ended at time t, then
\* Cache._set(key, value, ...) and return value.  An exception of fn, of
\* dumps or of storage.write leaves the wrapper; write_file raises after
\* ensure_path and the eviction pass have run.
Store(call, value, t, fault) ==
    LET ser == call.w.serializer
        data == dumps(ser, value)
        raises ==
            CASE fault = "fn" -> "CallableError"
              [] ~Serializable(ser, value) -> "TypeError"
              [] fault = "write" -> "OSError"
              [] OTHER -> ""
    IN  /\ \E order \in SortedByAtime(files) :
              files' =
                 CASE raises = "" ->
                         write(files, call.path, data, t, max_size, dir_stat, order)
                   [] raises = "OSError" /\ Evicts(files, data, max_size, dir_stat) ->
                         delete_least_recently_used(files, max_size, order)
                   [] OTHER -> files
        /\ dir_exists' = IF raises \in {"", "OSError"} THEN TRUE ELSE dir_exists
        /\ largest' = IF raises = "" /\ data.len > largest THEN data.len ELSE largest
        /\ log' = Append(log, call @@ [executed |-> TRUE,
                            ret |-> IF raises = "" THEN value ELSE Exc(raises)])

\* wrapped(*args, **kwargs) of a synchronous callable: _non_async_wrapper.
\* Cache._get on a hit; on FileNotFoundError or CacheExpired the callable
\* runs for dur ticks and Cache._set stores what it returned.
Call(w, args, kwargs, addr, dur, touch, fault) ==
    LET path == KeyPath(w, args, kwargs, addr)
        g == _get(files, path, w.serializer, deadline(w, now), fault)
        call == [w |-> w, args |-> args, kwargs |-> kwargs, id |-> addr,
                 path |-> path, at |-> now, end |-> now + dur,
                 status |-> g.status, alone |-> DOMAIN inflight = {}]
    IN  /\ now + dur <= MaxTime
        /\ dur > 0 => ClockObserved
        /\ touch => AtimeObserved
        /\ fault \in FaultsOf(w)
        /\ UNCHANGED <<program, max_size, dir_stat, inflight, decorated, optimized>>
        /\ now' = now + dur
        /\ IF Intercepted(g.status)
           THEN /\ touch = FALSE
                /\ \E value \in Results(w, args, kwargs) :
                      Store(call, value, now + dur, fault)
           ELSE /\ dur = 0
                /\ fault \in {"none", "read"}
                /\ Return(call, g, touch)

CallStep ==
    /\ Len(log) < MaxCalls
    /\ \E w \in program : \E c \in CallTable[w] : \E dur \in 0..MaxDur :
          \E touch \in BOOLEAN : \E fault \in Faults :
             ~is_async(w) /\ Call(w, c.args, c.kwargs, c.id, dur, touch, fault)

Tick ==
    /\ ClockObserved
    /\ now < MaxTime
    /\ now' = now + 1
    /\ UNCHANGED <<program, files, dir_exists, max_size, dir_stat, largest, log,
                   inflight, decorated, optimized>>

Next == CallStep \/ Tick

Spec == Init /\ [][Next]_vars

(***************************************************************************)
(* Calls that meet a failure: of a callable that may raise, on a storage   *)
(* that may fail, of a callable whose value the serializer cannot encode,  *)
(* and of one callable decorated with two serializers whose classes have   *)
(* one name, so that the entries of one are undecodable for the other.     *)
(***************************************************************************)
FaultPrograms ==
    {{Fetch}, {Load}, {ToBytesJSON}, {GetDataCustomPickle, GetDataCustomJSON}}

InitFaults ==
    /\ program \in FaultPrograms
    /\ files = EmptyFiles
    /\ dir_exists = FALSE
    /\ max_size = 0
    /\ dir_stat = 0
    /\ now = 0
    /\ largest = 0
    /\ log = <<>>
    /\ inflight = NoTasks
    /\ decorated = {}
    /\ optimized = FALSE

SpecFaults == InitFaults /\ [][Next]_vars

(***************************************************************************)
(* Two calls on a fresh cache, of any two wrapped callables.               *)
(***************************************************************************)
InitPair ==
    /\ program = Wrappers
    /\ files = EmptyFiles
    /\ dir_exists = FALSE
    /\ max_size = 0
    /\ dir_stat = 0
    /\ now = 0
    /\ largest = 0
    /\ log = <<>>
    /\ inflight = NoTasks
    /\ decorated = {}
    /\ optimized = FALSE

FirstCall ==
    /\ Len(log) = 0
    /\ \E w \in program : \E c \in CallTable[w] :
          ~is_async(w) /\ Call(w, c.args, c.kwargs, c.id, 0, FALSE, "none")

SecondCall ==
    /\ Len(log) = 1
    /\ \E w \in program : \E c \in CallTable[w] :
          ~is_async(w) /\ Call(w, c.args, c.kwargs, c.id, 0, FALSE, "none")

NextPair == FirstCall \/ SecondCall

SpecPair == InitPair /\ [][NextPair]_vars

(***************************************************************************)
(* Applying the decorator, cache(ignore=..., ttl=...)(fn), and then two    *)
(* calls of what it returned.  The conditions on ttl and on ignore are     *)
(* icontract contracts (@require), which icontract checks unless the       *)
(* interpreter runs with -O (require's parameter enabled is __debug__ by   *)
(* default).                                                               *)
(***************************************************************************)
InitDecorate ==
    /\ program = {}
    /\ files = EmptyFiles
    /\ dir_exists = FALSE
    /\ max_size = 0
    /\ dir_stat = 0
    /\ now = 0
    /\ largest = 0
    /\ log = <<>>
    /\ inflight = NoTasks
    /\ decorated = {}
    /\ optimized \in BOOLEAN

\* @require(lambda ttl: ttl is None or ttl > dt.timedelta(seconds=0))
ttl_positive(ttl) == ~ttl.given \/ ttl.secs > 0

\* @require(lambda self, fn: self.ignore is None or all(x in
\* inspect.signature(fn).parameters for x in self.ignore))
ignore_in_signature(fn, ignore) == \A x \in ignore : x \in ParamNames(fn)

\* Cache.__call__(ignore=..., ttl=...) and then _CachedFunction.__call__(fn)
Decorate(fn, ignore, ttl) ==
    LET violated == /\ ~optimized
                    /\ ~(ttl_positive(ttl) /\ ignore_in_signature(fn, ignore))
    IN  /\ decorated = {}
        /\ decorated' = {[fn |-> fn, ignore |-> ignore, ttl |-> ttl,
                          outcome |-> IF violated THEN "ViolationError"
                                                  ELSE "wrapped"]}
        /\ program' = IF violated THEN program
                       ELSE program \cup {_CachedFunction(fn, ignore, ttl)}
        /\ UNCHANGED <<files, dir_exists, max_size, dir_stat, now, largest, log,
                       inflight, optimized>>

DecorateStep ==
    \E fn \in Functions : \E ignore \in IgnoreArgs : \E ttl \in TtlArgs :
       Decorate(fn, ignore, ttl)

NextDecorate == DecorateStep \/ FirstCall \/ SecondCall \/ Tick

SpecDecorate == InitDecorate /\ [][NextDecorate]_vars

(***************************************************************************)
(* Calls of wrapped coroutine functions, each awaited in a task of its     *)
(* own: _async_wrapper runs up to "await fn(...)", where the task is       *)
(* suspended until fn has returned or raised, or the task is cancelled.    *)
(***************************************************************************)
AsyncPrograms == {{GetDataAsync}, {FetchAsync}}

InitAsync ==
    /\ program \in AsyncPrograms
    /\ files = EmptyFiles
    /\ dir_exists = FALSE
    /\ max_size = 0
    /\ dir_stat = 0
    /\ now = 0
    /\ largest = 0
    /\ log = <<>>
    /\ inflight = NoTasks
    /\ decorated = {}
    /\ optimized = FALSE

Started == Len(log) + Cardinality(DOMAIN inflight)

\* A faulty wrapper with a single flight per key: a call that begins while a
\* call with the same key is in flight waits for it and returns its value
\* without executing the callable.
Await_Coalesced(t, w, args, kwargs, addr, touch, fault) ==
    LET path == KeyPath(w, args, kwargs, addr)
        g == _get(files, path, w.serializer, deadline(w, now), fault)
        call == [w |-> w, args |-> args, kwargs |-> kwargs, id |-> addr,
                 path |-> path, at |-> now,
                 status |-> g.status, alone |-> DOMAIN inflight = {}]
    IN  /\ t \notin DOMAIN inflight
        /\ touch => AtimeObserved
        /\ fault \in {"none", "read"}
        /\ fault \in FaultsOf(w)
        /\ UNCHANGED <<program, max_size, dir_stat, now, decorated, optimized>>
        /\ IF Intercepted(g.status) /\ \E u \in DOMAIN inflight : inflight[u].path = path
           THEN /\ touch = FALSE
                /\ log' = Append(log, call @@ [end |-> now, executed |-> FALSE,
                                               ret |-> Body(w, args, kwargs)])
                /\ UNCHANGED <<files, dir_exists, largest, inflight>>
           ELSE IF Intercepted(g.status)
           THEN /\ touch = FALSE
                /\ inflight' = [u \in DOMAIN inflight \cup {t} |->
                                   IF u = t THEN call ELSE inflight[u]]
                /\ UNCHANGED <<files, dir_exists, largest, log>>
           ELSE /\ Return(call @@ [end |-> now], g, touch)
                /\ UNCHANGED inflight

\* A faulty wrapper, which on a miss writes an entry for None at the path
\* before it awaits the callable.
Await_WritesPlaceholder(t, w, args, kwargs, addr, touch, fault) ==
    LET path == KeyPath(w, args, kwargs, addr)
        g == _get(files, path, w.serializer, deadline(w, now), fault)
        call == [w |-> w, args |-> args, kwargs |-> kwargs, id |-> addr,
                 path |-> path, at |-> now,
                 status |-> g.status, alone |-> DOMAIN inflight = {}]
    IN  /\ t \notin DOMAIN inflight
        /\ touch => AtimeObserved
        /\ fault \in {"none", "read"}
        /\ fault \in FaultsOf(w)
        /\ UNCHANGED <<program, max_size, dir_stat, now, decorated, optimized>>
        /\ IF Intercepted(g.status)
           THEN /\ touch = FALSE
                /\ inflight' = [u \in DOMAIN inflight \cup {t} |->
                                   IF u = t THEN call ELSE inflight[u]]
                /\ files' = write_file(files, path, dumps(w.serializer, VNone), now)
                /\ dir_exists' = TRUE
                /\ UNCHANGED <<largest, log>>
           ELSE /\ Return(call @@ [end |-> now], g, touch)
                /\ UNCHANGED inflight

\* _async_wrapper from its start to the await: the key, then Cache._get.
\* A hit, or an exception of _get that is not intercepted, ends the call.
Await(t, w, args, kwargs, addr, touch, fault) ==
    LET path == KeyPath(w, args, kwargs, addr)
        g == _get(files, path, w.serializer, deadline(w, now), fault)
        call == [w |-> w, args |-> args, kwargs |-> kwargs, id |-> addr,
                 path |-> path, at |-> now,
                 status |-> g.status, alone |-> DOMAIN inflight = {}]
    IN  /\ t \notin DOMAIN inflight
        /\ touch => AtimeObserved
        /\ fault \in {"none", "read"}
        /\ fault \in FaultsOf(w)
        /\ UNCHANGED <<program, max_size, dir_stat, now, decorated, optimized>>
        /\ IF Intercepted(g.status)
           THEN /\ touch = FALSE
                /\ inflight' = [u \in DOMAIN inflight \cup {t} |->
                                   IF u = t THEN call ELSE inflight[u]]
                /\ UNCHANGED <<files, dir_exists, largest, log>>
           ELSE /\ Return(call @@ [end |-> now], g, touch)
                /\ UNCHANGED inflight

\* A faulty wrapper, whose store is awaited in two parts: the file is opened
\* (created or truncated) and the task is suspended once more before the
\* bytes are written.
Resume_SuspendsInStore(t, fault) ==
    /\ t \in DOMAIN inflight
    /\ inflight[t].status # "NoCache"
    /\ fault = "none"
    /\ LET c == inflight[t]
           value == Body(c.w, c.args, c.kwargs)
       IN  IF "pc" \notin DOMAIN c
           THEN /\ files' = write_file(files, c.path, NoData, now)
                /\ dir_exists' = TRUE
                /\ inflight' = [inflight EXCEPT ![t] = c @@ [pc |-> "write"]]
                /\ UNCHANGED <<largest, log>>
           ELSE /\ files' = [files EXCEPT ![c.path].data = dumps(c.w.serializer, value)]
                /\ log' = Append(log, [w |-> c.w, args |-> c.args, kwargs |-> c.kwargs,
                                       id |-> c.id, path |-> c.path, at |-> c.at,
                                       end |-> now, status |-> c.status,
                                       alone |-> c.alone, executed |-> TRUE,
                                       ret |-> value])
                /\ inflight' = [u \in DOMAIN inflight \ {t} |-> inflight[u]]
                /\ UNCHANGED <<dir_exists, largest>>
    /\ UNCHANGED <<program, max_size, dir_stat, now, decorated, optimized>>

\* A faulty Resume, which returns the value without storing it.
Resume_NoStore(t, fault) ==
    /\ t \in DOMAIN inflight
    /\ inflight[t].status # "NoCache"
    /\ fault = "none"
    /\ log' = Append(log, inflight[t]
                 @@ [end |-> now, executed |-> TRUE,
                     ret |-> Body(inflight[t].w, inflight[t].args, inflight[t].kwargs)])
    /\ inflight' = [u \in DOMAIN inflight \ {t} |-> inflight[u]]
    /\ UNCHANGED <<program, files, dir_exists, max_size, dir_stat, now, largest,
                   decorated, optimized>>

\* _async_wrapper from the await on: fn has returned or raised; Cache._set
\* and return value.
Resume(t, fault) ==
    /\ t \in DOMAIN inflight
    /\ inflight[t].status # "NoCache"
    /\ fault \in {"none", "fn", "write"}
    /\ fault \in FaultsOf(inflight[t].w)
    /\ Store(inflight[t] @@ [end |-> now],
             Body(inflight[t].w, inflight[t].args, inflight[t].kwargs), now, fault)
    /\ inflight' = [u \in DOMAIN inflight \ {t} |-> inflight[u]]
    /\ UNCHANGED <<program, max_size, dir_stat, now, decorated, optimized>>

\* A faulty Cancel, in which the entry is written all the same.
Cancel_Stores(t) ==
    /\ t \in DOMAIN inflight
    /\ inflight[t].status # "NoCache"
    /\ files' = write_file(files, inflight[t].path,
                     dumps(inflight[t].w.serializer,
                           Body(inflight[t].w, inflight[t].args, inflight[t].kwargs)),
                     now)
    /\ log' = Append(log, inflight[t] @@ [end |-> now, executed |-> TRUE,
                                          ret |-> Exc("CancelledError")])
    /\ inflight' = [u \in DOMAIN inflight \ {t} |-> inflight[u]]
    /\ UNCHANGED <<program, dir_exists, max_size, dir_stat, now, largest,
                   decorated, optimized>>

\* task.cancel() while fn is executing: CancelledError is raised at the
\* await and leaves _async_wrapper.
Cancel(t) ==
    /\ t \in DOMAIN inflight
    /\ inflight[t].status # "NoCache"
    /\ log' = Append(log, inflight[t] @@ [end |-> now, executed |-> TRUE,
                                          ret |-> Exc("CancelledError")])
    /\ inflight' = [u \in DOMAIN inflight \ {t} |-> inflight[u]]
    /\ UNCHANGED <<program, files, dir_exists, max_size, dir_stat, now, largest,
                   decorated, optimized>>

\* A new task: the tasks differ in nothing but their names.
FreeTask == IF "t1" \notin DOMAIN inflight THEN "t1" ELSE "t2"

AwaitStep ==
    /\ Started < MaxCalls
    /\ \E w \in program : \E c \in CallTable[w] :
          \E touch \in BOOLEAN : \E fault \in Faults :
             is_async(w) /\ Await(FreeTask, w, c.args, c.kwargs, c.id, touch, fault)

ResumeStep == \E t \in Tasks : \E fault \in Faults : Resume(t, fault)

CancelStep == \E t \in Tasks : Cancel(t)

NextAsync == AwaitStep \/ ResumeStep \/ CancelStep

SpecAsync == InitAsync /\ [][NextAsync]_vars

(***************************************************************************)
(* Calls of a wrapped coroutine function with a ttl, while time passes:    *)
(* an invocation step by step, from the lookup to the return.              *)
(***************************************************************************)
InitInvocation ==
    /\ program = {FetchAsyncTTL}
    /\ files = EmptyFiles
    /\ dir_exists = FALSE
    /\ max_size = 0
    /\ dir_stat = 0
    /\ now = 0
    /\ largest = 0
    /\ log = <<>>
    /\ inflight = NoTasks
    /\ decorated = {}
    /\ optimized = FALSE

\* One invocation at a time: a call begins when the one before has ended.
OneAtATime == DOMAIN inflight = {} /\ AwaitStep

NextInvocation == OneAtATime \/ ResumeStep \/ CancelStep \/ Tick

SpecInvocation == InitInvocation /\ [][NextInvocation]_vars

(***************************************************************************)
(* Calls of a wrapped callable made by two threads (or two processes) that *)
(* share the storage location.  Nothing in cache.py or storage.py takes a  *)
(* lock, so the steps of the two calls interleave: the lookup, the opening *)
(* of the file and the writing of the bytes.  path.write_bytes(data) is    *)
(* open(path, "wb"), which creates or truncates the file, and then         *)
(* f.write(data) at the writer's own offset 0, which replaces the first    *)
(* len(data) bytes of what the file holds by then.                         *)
(***************************************************************************)
ThreadPrograms == {{Latest}, {GetData}}

InitThreads ==
    /\ program \in ThreadPrograms
    /\ files = EmptyFiles
    /\ dir_exists = FALSE
    /\ max_size = 0
    /\ dir_stat = 0
    /\ now = 0
    /\ largest = 0
    /\ log = <<>>
    /\ inflight = NoTasks
    /\ decorated = {}
    /\ optimized = FALSE

\* open(path, "wb"): a new file, or the file truncated to no bytes.
open_wb(fs, path, t) == write_file(fs, path, NoData, t)

\* f.write(data) at offset 0 of a file that holds the bytes held: data, and
\* behind them the bytes of held beyond len(data) (which the model keeps as
\* the length of the whole).
f_write(data, held) ==
    IF held.len > data.len THEN [data EXCEPT !.len = held.len] ELSE data

\* _non_async_wrapper up to value = fn(...), which is _async_wrapper up to
\* its await: the key, then Cache._get.
ThreadLookup(t, w, args, kwargs, addr) ==
    Await(t, w, args, kwargs, addr, FALSE, "none")

\* fn has returned value; Cache._set: dumps, storage.write, which has come
\* to open(path, "wb").
ThreadOpen(t, value) ==
    /\ t \in DOMAIN inflight
    /\ "pc" \notin DOMAIN inflight[t]
    /\ value \in Results(inflight[t].w, inflight[t].args, inflight[t].kwargs)
    /\ files' = open_wb(files, inflight[t].path, now)
    /\ dir_exists' = TRUE
    /\ inflight' = [inflight EXCEPT ![t] = inflight[t] @@ [pc |-> "write", value |-> value]]
    /\ UNCHANGED <<program, max_size, dir_stat, now, largest, log, decorated,
                   optimized>>

\* f.write(data), the file is closed and the wrapper returns value.
ThreadWrite(t) ==
    /\ t \in DOMAIN inflight
    /\ "pc" \in DOMAIN inflight[t]
    /\ LET c == inflight[t]
           data == dumps(c.w.serializer, c.value)
       IN  /\ files' = [files EXCEPT ![c.path].data = f_write(data, files[c.path].data)]
           /\ largest' = IF data.len > largest THEN data.len ELSE largest
           /\ log' = Append(log, [w |-> c.w, args |-> c.args, kwargs |-> c.kwargs,
                                  id |-> c.id, path |-> c.path, at |-> c.at,
                                  end |-> now, status |-> c.status,
                                  alone |-> c.alone, executed |-> TRUE,
                                  ret |-> c.value])
    /\ inflight' = [u \in DOMAIN inflight \ {t} |-> inflight[u]]
    /\ UNCHANGED <<program, dir_exists, max_size, dir_stat, now, decorated,
                   optimized>>

ThreadLookupStep ==
    /\ Started < MaxCalls
    /\ \E w \in program : \E c \in CallTable[w] :
          ThreadLookup(FreeTask, w, c.args, c.kwargs, c.id)

ThreadOpenStep == \E t \in Tasks : \E value \in {VNone} \cup ArgValues : ThreadOpen(t, value)

ThreadWriteStep == \E t \in Tasks : ThreadWrite(t)

NextThreads == ThreadLookupStep \/ ThreadOpenStep \/ ThreadWriteStep

SpecThreads == InitThreads /\ [][NextThreads]_vars

(***************************************************************************)
(* The disabled cache: NoCache() in the place of Cache(), as in            *)
(* cache = NoCache() if os.environ["DEBUG"] else Cache().  The storage may *)
(* hold an entry that an earlier run wrote through Cache().                *)
(***************************************************************************)
NoCachePrograms == {{GetData}, {GetDataIgnoreKey}, {Add}, {GetDataAsync}}

\* A call through NoCache derives no path.
NoPath == [cls |-> "", name |-> "", key |-> hash_it(<<>>), extension |-> ""]

NoCacheEntry(w, args, kwargs, addr) ==
    [w |-> w, args |-> args, kwargs |-> kwargs, id |-> addr, path |-> NoPath,
     at |-> now, status |-> "NoCache", alone |-> DOMAIN inflight = {}]

\* The storage after one call through Cache() on an empty storage.
EarlierRun(w, c) ==
    write(EmptyFiles, KeyPath(w, c.args, c.kwargs, c.id),
          dumps(w.serializer, Body(w, c.args, c.kwargs)), 0, 0, 0, <<>>)

InitNoCache ==
    /\ program \in NoCachePrograms
    /\ \E w \in program :
          LET c == CHOOSE x \in CallTable[w] : TRUE
          IN  files \in {EmptyFiles, EarlierRun(w, c)}
    /\ dir_exists = (files # EmptyFiles)
    /\ max_size = 0
    /\ dir_stat = 0
    /\ now = 0
    /\ largest = 0
    /\ log = <<>>
    /\ inflight = NoTasks
    /\ decorated = {}
    /\ optimized = FALSE

\* A faulty wrapper of NoCache, which is the wrapper of Cache.
NoCacheCall_Cached(w, args, kwargs, addr) ==
    Call(w, args, kwargs, addr, 0, FALSE, "none")

\* NoCache._decorator(fn)._non_async_wrapper: return fn(*args, **kwargs)
NoCacheCall(w, args, kwargs, addr) ==
    /\ log' = Append(log, NoCacheEntry(w, args, kwargs, addr)
                             @@ [end |-> now, executed |-> TRUE,
                                 ret |-> Body(w, args, kwargs)])
    /\ UNCHANGED <<program, files, dir_exists, max_size, dir_stat, now, largest,
                   inflight, decorated, optimized>>

\* NoCache._decorator(fn)._async_wrapper up to its await of fn(...)
NoCacheAwait(t, w, args, kwargs, addr) ==
    /\ t \notin DOMAIN inflight
    /\ inflight' = [u \in DOMAIN inflight \cup {t} |->
                       IF u = t THEN NoCacheEntry(w, args, kwargs, addr)
                                ELSE inflight[u]]
    /\ UNCHANGED <<program, files, dir_exists, max_size, dir_stat, now, largest,
                   log, decorated, optimized>>

\* ... and from there: return what fn returned
NoCacheResume(t) ==
    /\ t \in DOMAIN inflight
    /\ inflight[t].status = "NoCache"
    /\ log' = Append(log, inflight[t]
                             @@ [end |-> now, executed |-> TRUE,
                                 ret |-> Body(inflight[t].w, inflight[t].args,
                                              inflight[t].kwargs)])
    /\ inflight' = [u \in DOMAIN inflight \ {t} |-> inflight[u]]
    /\ UNCHANGED <<program, files, dir_exists, max_size, dir_stat, now, largest,
                   decorated, optimized>>

NoCacheCallStep ==
    /\ Started < MaxCalls
    /\ \E w \in program : \E c \in CallTable[w] :
          ~is_async(w) /\ NoCacheCall(w, c.args, c.kwargs, c.id)

NoCacheAwaitStep ==
    /\ Started < MaxCalls
    /\ \E w \in program : \E c \in CallTable[w] :
          is_async(w) /\ NoCacheAwait(FreeTask, w, c.args, c.kwargs, c.id)

NoCacheResumeStep == \E t \in Tasks : NoCacheResume(t)

NextNoCache ==
    \/ NoCacheCallStep
    \/ NoCacheAwaitStep
    \/ NoCacheResumeStep

SpecNoCache == InitNoCache /\ [][NextNoCache]_vars

(***************************************************************************)
(* The storage used on its own: FileStorage.write, read and clear called   *)
(* directly on a storage with a max_size, as test_storage.py does.         *)
(***************************************************************************)
RawPath(name) == [cls |-> "", name |-> name, key |-> hash_it(<<>>), extension |-> ""]
RawPaths == {RawPath("a"), RawPath("b"), RawPath("c")}
RawData == {[fmt |-> "raw", type |-> "", body |-> "", len |-> n] : n \in 1..MaxLen}

InitStorage ==
    /\ program = {}
    /\ files = EmptyFiles
    /\ dir_exists = FALSE
    /\ max_size \in 1..MaxLimit
    /\ dir_stat \in DirStats
    /\ now = 0
    /\ largest = 0
    /\ log = <<>>
    /\ inflight = NoTasks
    /\ decorated = {}
    /\ optimized = FALSE

\* storage.write(path, data)
StorageWrite(path, data) ==
    /\ \E order \in SortedByAtime(files) :
          files' = write(files, path, data, now, max_size, dir_stat, order)
    /\ dir_exists' = TRUE
    /\ largest' = IF data.len > largest THEN data.len ELSE largest
    /\ UNCHANGED <<program, max_size, dir_stat, now, log,
                   inflight, decorated, optimized>>

\* The deadlines a read is made with: None, or a moment.
NoDeadline == [set |-> FALSE, at |-> 0]
Deadlines == {NoDeadline} \cup {[set |-> TRUE, at |-> t] : t \in 0..MaxTime}

\* storage.read(path, deadline) of an existing entry that is not expired
StorageRead(path, dl, touch) ==
    /\ read(files, path, dl).status = "ok"
    /\ files' = read_file(files, path, now, touch)
    /\ UNCHANGED <<program, dir_exists, max_size, dir_stat, now, largest, log,
                   inflight, decorated, optimized>>

\* storage.clear(): delete every file of the directory, then rmdir
clear ==
    /\ files' = FileStorage_clear(files, dir_exists).files
    /\ dir_exists' = FileStorage_clear(files, dir_exists).exists
    /\ UNCHANGED <<program, max_size, dir_stat, now, largest, log,
                   inflight, decorated, optimized>>

NextStorage ==
    \/ \E path \in RawPaths : \E data \in RawData : StorageWrite(path, data)
    \/ \E path \in RawPaths : \E dl \in Deadlines : \E touch \in BOOLEAN :
          StorageRead(path, dl, touch)
    \/ clear
    \/ Tick

SpecStorage == InitStorage /\ [][NextStorage]_vars

\* The same operations on a storage whose max_size is smaller than an entry
\* can be, on every file system, and on a storage with the largest max_size
\* on a file system that reports the bytes below the directory.
InitStorageEdge ==
    /\ program = {}
    /\ files = EmptyFiles
    /\ dir_exists = FALSE
    /\ max_size \in {1, MaxLimit}
    /\ dir_stat \in DirStats
    /\ max_size = 1 \/ dir_stat = -1
    /\ now = 0
    /\ largest = 0
    /\ log = <<>>
    /\ inflight = NoTasks
    /\ decorated = {}
    /\ optimized = FALSE

SpecStorageEdge == InitStorageEdge /\ [][NextStorage]_vars

(***************************************************************************)
(* Two writers (threads or processes) on one namespace with a max_size, on *)
(* a file system that reports the bytes below the directory.  Nothing in   *)
(* storage.py takes a lock, so the steps of two calls of write interleave: *)
(* ensure_path, the test of the size and the listing of the pass (taken    *)
(* here as one step), each delete(f) of the pass, and write_file.          *)
(***************************************************************************)
InitWriters ==
    /\ program = {}
    /\ files = EmptyFiles
    /\ dir_exists = FALSE
    /\ max_size \in {1, MaxLimit}
    /\ dir_stat = -1
    /\ now = 0
    /\ largest = 0
    /\ log = <<>>
    /\ inflight = NoTasks
    /\ decorated = {}
    /\ optimized = FALSE

\* files[i - 1:] of delete_least_recently_used, in the order of the list.
files_to_delete(fs, target_size, order) ==
    LET i == lru_loop(fs, order, target_size, 0, 0)
        from == IF i = 0 THEN Len(order) ELSE i
    IN  IF Len(order) = 0 THEN <<>> ELSE SubSeq(order, from, Len(order))

\* write(path, data) up to the for loop of the pass, or up to write_file
\* when no pass is run: todo is what the pass has still to delete.
WriteBegin(t, path, data) ==
    /\ t \notin DOMAIN inflight
    /\ dir_exists' = TRUE
    /\ \E order \in SortedByAtime(files) :
          inflight' = [u \in DOMAIN inflight \cup {t} |->
             IF u = t
             THEN [path |-> path, data |-> data, began |-> Len(log),
                   todo |-> IF Evicts(files, data, max_size, dir_stat)
                            THEN files_to_delete(files, max_size, order)
                            ELSE <<>>]
             ELSE inflight[u]]
    /\ UNCHANGED <<program, files, max_size, dir_stat, now, largest, log,
                   decorated, optimized>>

\* self.delete(f): path.unlink(), which raises FileNotFoundError for a file
\* that is no longer there; the exception leaves write.
WriteDelete(t) ==
    /\ t \in DOMAIN inflight
    /\ inflight[t].todo # <<>>
    /\ LET c == inflight[t]
           f == Head(c.todo)
       IN  IF f \in DOMAIN files
           THEN /\ files' = delete(files, f)
                /\ inflight' = [inflight EXCEPT ![t].todo = Tail(c.todo)]
                /\ log' = log
           ELSE /\ files' = files
                /\ inflight' = [u \in DOMAIN inflight \ {t} |-> inflight[u]]
                /\ log' = Append(log, [path |-> c.path, data |-> c.data,
                                       began |-> c.began,
                                       ret |-> Exc("FileNotFoundError")])
    /\ UNCHANGED <<program, dir_exists, max_size, dir_stat, now, largest,
                   decorated, optimized>>

\* self.write_file(final_path, data), and write returns None.
WriteFile(t) ==
    /\ t \in DOMAIN inflight
    /\ inflight[t].todo = <<>>
    /\ LET c == inflight[t]
       IN  /\ files' = write_file(files, c.path, c.data, now)
           /\ largest' = IF c.data.len > largest THEN c.data.len ELSE largest
           /\ log' = Append(log, [path |-> c.path, data |-> c.data,
                                  began |-> c.began, ret |-> VNone])
    /\ inflight' = [u \in DOMAIN inflight \ {t} |-> inflight[u]]
    /\ UNCHANGED <<program, dir_exists, max_size, dir_stat, now, decorated,
                   optimized>>

WriteBeginStep ==
    /\ Started < MaxCalls
    /\ \E path \in RawPaths : \E data \in RawData : WriteBegin(FreeTask, path, data)

WriteDeleteStep == \E t \in Tasks : WriteDelete(t)

WriteFileStep == \E t \in Tasks : WriteFile(t)

NextWriters == WriteBeginStep \/ WriteDeleteStep \/ WriteFileStep

SpecWriters == InitWriters /\ [][NextWriters]_vars

(***************************************************************************)
(* Calls of a wrapped callable by threads, while other threads delete      *)
(* entries (an eviction pass, or the loop of clear()) and remove the empty *)
(* directory (the end of clear()).  The steps of a call: the key and the   *)
(* modification-time check of read (made when there is a deadline), the    *)
(* byte read, the execution with dumps and ensure_path, and write_file.    *)
(***************************************************************************)
RacePrograms == {{GetData}, {GetDataTTL}}

InitRace ==
    /\ program \in RacePrograms
    /\ files = EmptyFiles
    /\ dir_exists = FALSE
    /\ max_size = 0
    /\ dir_stat = 0
    /\ now = 0
    /\ largest = 0
    /\ log = <<>>
    /\ inflight = NoTasks
    /\ decorated = {}
    /\ optimized = FALSE

\* The entry of the log for the call c that has ended; began is the number
\* of calls that had ended when it began.
Ended(c, status, executed, ret) ==
    [w |-> c.w, args |-> c.args, kwargs |-> c.kwargs, id |-> c.id,
     path |-> c.path, at |-> c.at, end |-> now, status |-> status,
     alone |-> c.alone, began |-> c.began, executed |-> executed, ret |-> ret]

\* The key, and "deadline is not None and self.mtime(final_path) < deadline":
\* FileNotFoundError and CacheExpired take the call to the except branch.
LookupStat(t, w, args, kwargs, addr) ==
    LET path == KeyPath(w, args, kwargs, addr)
        dl == deadline(w, now)
        st == CASE ~dl.set -> "ok"
                [] mtime(files, path).status # "ok" -> mtime(files, path).status
                [] mtime(files, path).at < dl.at -> "CacheExpired"
                [] OTHER -> "ok"
    IN  /\ t \notin DOMAIN inflight
        /\ inflight' = [u \in DOMAIN inflight \cup {t} |->
              IF u = t
              THEN [w |-> w, args |-> args, kwargs |-> kwargs, id |-> addr,
                    path |-> path, at |-> now, status |-> st,
                    alone |-> DOMAIN inflight = {}, began |-> Len(log),
                    pc |-> IF st = "ok" THEN "read" ELSE "execute"]
              ELSE inflight[u]]
        /\ UNCHANGED <<program, files, dir_exists, max_size, dir_stat, now,
                       largest, log, decorated, optimized>>

\* self.read_file(...) and serializer.loads: a hit returns; FileNotFoundError
\* takes the call to the except branch.
LookupRead(t) ==
    /\ t \in DOMAIN inflight
    /\ inflight[t].pc = "read"
    /\ LET c == inflight[t]
           r == read_bytes(files, c.path)
       IN  IF r.status = "ok"
           THEN /\ log' = Append(log, Ended(c, "ok", FALSE,
                                            loads(c.w.serializer, r.data)))
                /\ inflight' = [u \in DOMAIN inflight \ {t} |-> inflight[u]]
           ELSE /\ log' = log
                /\ inflight' = [inflight EXCEPT ![t].status = r.status,
                                                ![t].pc = "execute"]
    /\ UNCHANGED <<program, files, dir_exists, max_size, dir_stat, now, largest,
                   decorated, optimized>>

\* value = fn(...); Cache._set: dumps, and storage.write up to write_file:
\* ensure_path makes the directory.
ExecuteAndEnsurePath(t) ==
    /\ t \in DOMAIN inflight
    /\ inflight[t].pc = "execute"
    /\ dir_exists' = TRUE
    /\ inflight' = [inflight EXCEPT ![t].pc = "write"]
    /\ UNCHANGED <<program, files, max_size, dir_stat, now, largest, log,
                   decorated, optimized>>

\* path.write_bytes(data), which raises FileNotFoundError when the directory
\* is not there; otherwise the wrapper returns value.
WriteBytes(t) ==
    /\ t \in DOMAIN inflight
    /\ inflight[t].pc = "write"
    /\ LET c == inflight[t]
           value == Body(c.w, c.args, c.kwargs)
           data == dumps(c.w.serializer, value)
       IN  IF dir_exists
           THEN /\ files' = write_file(files, c.path, data, now)
                /\ largest' = IF data.len > largest THEN data.len ELSE largest
                /\ log' = Append(log, Ended(c, c.status, TRUE, value))
           ELSE /\ UNCHANGED <<files, largest>>
                /\ log' = Append(log, Ended(c, c.status, TRUE,
                                            Exc("FileNotFoundError")))
    /\ inflight' = [u \in DOMAIN inflight \ {t} |-> inflight[u]]
    /\ UNCHANGED <<program, dir_exists, max_size, dir_stat, now, decorated,
                   optimized>>

\* self.delete(f) of another thread: of an eviction pass, or of clear().
RaceDelete ==
    /\ \E f \in DOMAIN files : files' = delete(files, f)
    /\ UNCHANGED <<program, dir_exists, max_size, dir_stat, now, largest, log,
                   inflight, decorated, optimized>>

\* self.rmdir(self.location) at the end of clear() of another thread, when
\* it succeeds: the directory is empty.
RaceRmdir ==
    /\ dir_exists
    /\ rmdir(files, dir_exists).status = "ok"
    /\ dir_exists' = rmdir(files, dir_exists).exists
    /\ UNCHANGED <<program, files, max_size, dir_stat, now, largest, log,
                   inflight, decorated, optimized>>

LookupStatStep ==
    /\ Started < MaxCalls
    /\ \E w \in program : \E c \in CallTable[w] :
          LookupStat(FreeTask, w, c.args, c.kwargs, c.id)

LookupReadStep == \E t \in Tasks : LookupRead(t)

ExecuteStep == \E t \in Tasks : ExecuteAndEnsurePath(t)

WriteBytesStep == \E t \in Tasks : WriteBytes(t)

NextRace ==
    \/ LookupStatStep \/ LookupReadStep \/ ExecuteStep \/ WriteBytesStep
    \/ RaceDelete \/ RaceRmdir

SpecRace == InitRace /\ [][NextRace]_vars

(***************************************************************************)
(* Calls of wrapped callables with cache.storage.clear() between them.     *)
(***************************************************************************)
ClearPrograms == {{GetData}, {Fetch}, {FetchData}}

InitClear ==
    /\ program \in ClearPrograms
    /\ files = EmptyFiles
    /\ dir_exists = FALSE
    /\ max_size = 0
    /\ dir_stat = 0
    /\ now = 0
    /\ largest = 0
    /\ log = <<>>
    /\ inflight = NoTasks
    /\ decorated = {}
    /\ optimized = FALSE

NextClear == CallStep \/ Tick \/ clear

SpecClear == InitClear /\ [][NextClear]_vars

(***************************************************************************)
(* Calls of wrapped callables, a new Cache object over the same storage    *)
(* location, cache = Cache(storage=LocalFileStorage(location)), with which *)
(* the callables of the program are decorated again, and calls of the new  *)
(* wrappers.  A Cache object holds its serializer and its storage, and a   *)
(* wrapper the arguments of the decorator: the new wrappers are what       *)
(* _CachedFunction makes of the same callables and arguments.              *)
(***************************************************************************)
NewCache ==
    /\ decorated = {}
    /\ decorated' =
          {[fn |-> w, ignore |-> w.ignore,
            ttl |-> [given |-> w.ttl # 0, secs |-> w.ttl],
            outcome |-> "wrapped", calls |-> Len(log)] : w \in program}
    /\ program' =
          {_CachedFunction(w, w.ignore, [given |-> w.ttl # 0, secs |-> w.ttl]) :
              w \in program}
    /\ UNCHANGED <<files, dir_exists, max_size, dir_stat, now, largest, log,
                   inflight, optimized>>

NextNewCache == CallStep \/ Tick \/ NewCache

SpecNewCache == Init /\ [][NextNewCache]_vars

(***************************************************************************)
(* Calls of a callable whose value the serializer at times cannot encode,  *)
(* on a storage with or without a max_size (on a file system that reports  *)
(* the bytes below the directory).                                         *)
(***************************************************************************)
InitUnserializable ==
    /\ program = {Render}
    /\ files = EmptyFiles
    /\ dir_exists = FALSE
    /\ max_size \in {0, 1}
    /\ dir_stat = -1
    /\ now = 0
    /\ largest = 0
    /\ log = <<>>
    /\ inflight = NoTasks
    /\ decorated = {}
    /\ optimized = FALSE

SpecUnserializable == InitUnserializable /\ [][Next]_vars

(***************************************************************************)
(* Calls of a method on the instances of its class that a program creates  *)
(* and destroys: an instance lives at an address, two instances alive at   *)
(* the same time live at different addresses, and an instance created      *)
(* after another was destroyed may live at the address of that one.  Every *)
(* sequence of calls on (instance, address) is therefore the run of some   *)
(* program.                                                                *)
(***************************************************************************)
InstancePrograms == {{Snapshot}}

InitInstances ==
    /\ program \in InstancePrograms
    /\ files = EmptyFiles
    /\ dir_exists = FALSE
    /\ max_size = 0
    /\ dir_stat = 0
    /\ now = 0
    /\ largest = 0
    /\ log = <<>>
    /\ inflight = NoTasks
    /\ decorated = {}
    /\ optimized = FALSE

SpecInstances == InitInstances /\ [][CallStep]_vars

(***************************************************************************)
(* Vocabulary of the properties.                                           *)
(***************************************************************************)
Idx == 1..Len(log)

\* Calls i and j are calls of one callable with identical arguments: equal
\* values and, for a method, the same instance.
SameCall(i, j) ==
    /\ log[i].w = log[j].w
    /\ log[i].args = log[j].args
    /\ ItemSet(log[i].kwargs) = ItemSet(log[j].kwargs)
    /\ log[i].w.cls # "" => log[i].id = log[j].id

\* What Python binds to a declared parameter: the positional or keyword
\* argument, or for *args the positional arguments left over.
Bound(w, args, kwargs, name) ==
    LET i == CHOOSE j \in 1..Len(w.params) : w.params[j].name = name
    IN  CASE w.params[i].kind = "var" ->
                SubSeq(args, NPos(w.params) + 1, Len(args))
          [] w.params[i].kind = "kwonly" -> <<get(kwargs, name)>>
          [] OTHER -> IF i <= Len(args) THEN <<args[i]>> ELSE <<get(kwargs, name)>>

\* The parameters to which calls i and j (of one callable) bind different
\* values; two instances at different addresses are different values of self.
DiffParams(i, j) ==
    {n \in ParamNames(log[i].w) :
        Bound(log[i].w, log[i].args, log[i].kwargs, n)
            # Bound(log[j].w, log[j].args, log[j].kwargs, n)}
    \cup (IF log[i].w.cls # "" /\ log[i].id # log[j].id
          THEN {log[i].w.params[1].name} ELSE {})

\* No call between i and j wrote the entry of call i.
NoStoreBetween(i, j) ==
    \A k \in Idx : i < k /\ k < j => ~(log[k].executed /\ log[k].path = log[i].path)

\* The call ended with the exception of its callable.
Raised(e) == e.ret = Exc("CallableError")

\* The values a serializer gives back as they went in (compatibility.py:
\* JSON does not give back a tuple).
Supported(ser, value) ==
    ser.fmt # "json" \/ value.type \in {"str", "list", "NoneType"}

(***************************************************************************)
(* C1.  Without a ttl, N >= 2 calls with identical arguments execute the   *)
(* callable once: a call that finds no entry executes and stores, every    *)
(* later identical call is a hit that does not execute.                    *)
(***************************************************************************)
C1_ExecutedOnce ==
    \A i \in Idx :
       log[i].w.ttl = 0 =>
          /\ log[i].status # "ok" =>
                /\ log[i].executed
                /\ log[i].path \in DOMAIN files
                /\ Cardinality({j \in Idx : SameCall(i, j) /\ log[j].executed}) = 1
          /\ \A j \in Idx :
                i < j /\ SameCall(i, j) => log[j].status = "ok" /\ ~log[j].executed

(***************************************************************************)
(* C2.  As claimed: every hit returns a value equal to the one the miss    *)
(* returned.                                                               *)
(***************************************************************************)
C2_AllCallsEqual ==
    \A i, j \in Idx :
       i < j /\ SameCall(i, j) /\ log[i].executed /\ ~log[j].executed
          => log[j].ret = log[i].ret

(***************************************************************************)
(* C2 for the values the serializer gives back as they went in (JSON gives *)
(* a tuple back as a list): a hit returns a value equal to the one the     *)
(* miss returned.  Not an invariant either: a hit on an entry whose key    *)
(* holds the address of the first argument in place of its value returns   *)
(* what was computed for another argument.                                 *)
(***************************************************************************)
C2_EqualWhenRoundTrip ==
    \A i, j \in Idx :
       i < j /\ SameCall(i, j) /\ log[i].executed /\ ~log[j].executed
       /\ Supported(log[i].w.serializer, log[i].ret)
          => log[j].ret = log[i].ret

(***************************************************************************)
(* C3.  On a fresh cache f(a), f(b), f(a), where a and b differ in a       *)
(* non-ignored argument, executes the callable exactly twice: the entries  *)
(* of a and b are separate and the third call is a hit on the first's.     *)
(***************************************************************************)
C3_SeparateEntries ==
    Len(log) >= 3 /\ log[1].w = log[2].w /\ log[1].w.ttl = 0
    /\ SameCall(1, 3) /\ ~(DiffParams(1, 2) \subseteq log[1].w.ignore)
       => /\ log[1].executed /\ log[2].executed /\ ~log[3].executed
          /\ log[1].path # log[2].path
          /\ log[3].path = log[1].path

(***************************************************************************)
(* C4.  Two calls of one callable that differ in the value of one          *)
(* non-ignored argument derive different keys, and the second is not       *)
(* served from the first's entry.                                          *)
(***************************************************************************)
C4_KeyDependsOnArguments ==
    Len(log) = 2 /\ log[1].w = log[2].w
    /\ Cardinality(DiffParams(1, 2)) = 1
    /\ DiffParams(1, 2) \cap log[1].w.ignore = {}
       => log[1].path.key # log[2].path.key /\ log[2].executed

(***************************************************************************)
(* C5.  Two callables of the same name with different source text derive   *)
(* different keys: an entry written for the old source is not returned.    *)
(***************************************************************************)
C5_KeyDependsOnSource ==
    Len(log) = 2 /\ log[1].w.name = log[2].w.name /\ log[1].w.cls = log[2].w.cls
    /\ log[1].w.source # log[2].w.source
       => log[1].path.key # log[2].path.key /\ log[2].executed

C5_Witness ==
    /\ Len(log) = 2
    /\ log[1].w = GetData /\ log[2].w = GetDataChanged
    /\ log[1].args = log[2].args /\ log[1].kwargs = log[2].kwargs
    /\ log[2].status = "FileNotFoundError" /\ log[2].executed

C7_KeyIgnoresIgnored ==
    Len(log) = 2 /\ log[1].w = log[2].w
    /\ DiffParams(1, 2) # {} /\ DiffParams(1, 2) \subseteq log[1].w.ignore
       => /\ log[1].path = log[2].path
          /\ log[2].status = "ok" /\ ~log[2].executed

(***************************************************************************)
(* C8.  Two calls that bind the same values to the parameters, one passing *)
(* a value positionally and the other by keyword, derive the same key and  *)
(* share one entry.                                                        *)
(***************************************************************************)
C8_PositionalOrKeyword ==
    Len(log) = 2 /\ log[1].w = log[2].w
    /\ DiffParams(1, 2) = {} /\ log[1].args # log[2].args
       => /\ log[1].path = log[2].path
          /\ log[2].status = "ok" /\ ~log[2].executed
          /\ DOMAIN files = {log[1].path}

(***************************************************************************)
(* C9.  As claimed: with ttl = T, after a call made at t0 stored an entry, *)
(* a call with the same key made later than t0 + T executes the callable,  *)
(* a call made earlier than t0 + T does not.                               *)
(***************************************************************************)
C9_TTLFromCallTime ==
    \A i, j \in Idx :
       i < j /\ log[i].executed /\ log[j].path = log[i].path
       /\ NoStoreBetween(i, j) /\ log[j].w.ttl # 0
          => /\ log[j].at > log[i].at + log[j].w.ttl => log[j].executed
             /\ log[j].at < log[i].at + log[j].w.ttl => ~log[j].executed

(***************************************************************************)
(* C9, amended.  The ttl runs from the moment the entry was written, when  *)
(* the execution of the storing call had ended: a call with the same key   *)
(* made later than that moment + T executes the callable and rewrites the  *)
(* entry, a call made earlier does not execute and is served from it.      *)
(***************************************************************************)
C9_TTLFromStoreTime ==
    \A i, j \in Idx :
       i < j /\ log[i].executed /\ log[j].path = log[i].path
       /\ NoStoreBetween(i, j) /\ log[j].w.ttl # 0
          => /\ log[j].at > log[i].end + log[j].w.ttl =>
                   /\ log[j].executed /\ log[j].status = "CacheExpired"
                   /\ files[log[j].path].mtime >= log[j].end
             /\ log[j].at < log[i].end + log[j].w.ttl =>
                   /\ ~log[j].executed /\ log[j].status = "ok"
                   /\ log[j].ret = log[i].ret

C9_Witness ==
    \E i, j, k \in Idx :
       /\ i < j /\ j < k
       /\ log[i].executed /\ log[i].w = GetDataTTL /\ SameCall(i, j) /\ SameCall(j, k)
       /\ log[j].at < log[i].end + log[j].w.ttl /\ ~log[j].executed
       /\ log[k].at > log[i].end + log[k].w.ttl /\ log[k].executed

(***************************************************************************)
(* C10.  With max_size = S the total size of the entries of the namespace  *)
(* never exceeds S plus the size of the largest entry ever written.        *)
(***************************************************************************)
C10_EvictionBound == TotalSize(files) <= max_size + largest

(***************************************************************************)
(* C11.  When no entry written is larger than max_size, the total size of  *)
(* the namespace after a write, the entry just written included, is at     *)
(* most max_size.                                                          *)
(***************************************************************************)
C11_NewEntryFits == largest <= max_size => TotalSize(files) <= max_size

(***************************************************************************)
(* C12.  Per-instance scoping: calls of a method with identical arguments  *)
(* on two instances alive at the same time derive different paths, so      *)
(* neither is served from the entry of the other, and a call executes the  *)
(* method exactly when it is the first such call on its own instance.      *)
(***************************************************************************)
C12_PerInstance ==
    \A j \in Idx :
       log[j].w.cls # "" /\ log[j].w.per_instance =>
          /\ \A i \in Idx :
                (/\ i < j
                 /\ log[i].w = log[j].w
                 /\ log[i].id # log[j].id
                 /\ DiffParams(i, j) = {log[j].w.params[1].name})
                    => log[i].path # log[j].path
          /\ log[j].executed <=>
                ~\E i \in Idx :
                     i < j /\ log[i].w = log[j].w /\ DiffParams(i, j) = {}

(***************************************************************************)
(* C13.  Shared scoping: with per_instance=False, a call of a method on    *)
(* one instance is served from the entry written by an earlier call with   *)
(* identical arguments on another instance: it is a hit, does not execute  *)
(* the method and returns what the earlier call returned.                  *)
(***************************************************************************)
C13_SharedScope ==
    \A i, j \in Idx :
       (/\ i < j
        /\ log[i].w = log[j].w
        /\ log[j].w.cls # "" /\ ~log[j].w.per_instance
        /\ log[i].id # log[j].id
        /\ DiffParams(i, j) = {log[j].w.params[1].name}
        /\ log[i].executed)
          => /\ log[j].path = log[i].path
             /\ log[j].status = "ok" /\ ~log[j].executed
             /\ log[j].ret = log[i].ret

(***************************************************************************)
(* C14.  A call through NoCache executes the callable (k calls, k          *)
(* executions, each returning what the callable returned) and no step of   *)
(* such a call, of a function, a method or a coroutine function, with or   *)
(* without decorator arguments, reads, writes or deletes anything in the   *)
(* storage.                                                                *)
(***************************************************************************)
C14_NoCacheExecutes ==
    [][/\ files' = files /\ dir_exists' = dir_exists
       /\ Len(log') > Len(log) =>
             LET e == log'[Len(log')]
             IN  e.executed /\ e.ret = Body(e.w, e.args, e.kwargs)]_vars

\* Through NoCache a callable was called twice with the arguments whose
\* entry is in the storage.
C14_Witness ==
    \E j, k \in Idx :
       /\ j < k
       /\ log[j].status = "NoCache" /\ log[k].status = "NoCache"
       /\ log[j].executed /\ log[k].executed
       /\ log[k].w = log[j].w /\ log[k].args = log[j].args
       /\ log[k].kwargs = log[j].kwargs /\ log[k].id = log[j].id
       /\ KeyPath(log[j].w, log[j].args, log[j].kwargs, log[j].id) \in DOMAIN files

(***************************************************************************)
(* C15.  For calls made one after the other, each awaited to its end, the  *)
(* wrapper of a coroutine function does what the wrapper of the ordinary   *)
(* callable does with the same calls: the same outcome of every lookup,    *)
(* the same executions, the same returned values, and the same entries     *)
(* (bytes and modification time) under the paths the calls derive.         *)
(***************************************************************************)
\* The ordinary callable that a coroutine function corresponds to.
SyncTwin(w) ==
    [w EXCEPT !.source = CASE w.source = SrcGetDataAsync -> SrcGetData
                           [] w.source = SrcFetchAsync -> SrcFetch
                           [] OTHER -> w.source]

\* _non_async_wrapper applied to the calls 1..k of the log, one after the
\* other on an empty storage without max_size: the storage it leaves and
\* what each call found, did and returned.  The callable raises in the
\* executions in which the coroutine function raised.
RECURSIVE SyncRun(_)
SyncRun(k) ==
    IF k = 0 THEN [files |-> EmptyFiles, out |-> <<>>]
    ELSE LET prev == SyncRun(k - 1)
             e == log[k]
             w == SyncTwin(e.w)
             path == KeyPath(w, e.args, e.kwargs, e.id)
             g == _get(prev.files, path, w.serializer, deadline(w, e.at), "none")
             value == Body(w, e.args, e.kwargs)
         IN  IF Intercepted(g.status) /\ e.ret = Exc("CallableError")
             THEN [files |-> prev.files,
                   out |-> Append(prev.out, [path |-> path, status |-> g.status,
                                             executed |-> TRUE, ret |-> e.ret])]
             ELSE IF Intercepted(g.status)
             THEN [files |-> write(prev.files, path, dumps(w.serializer, value),
                                   e.end, 0, 0, <<>>),
                   out |-> Append(prev.out, [path |-> path, status |-> g.status,
                                             executed |-> TRUE, ret |-> value])]
             ELSE [files |-> prev.files,
                   out |-> Append(prev.out, [path |-> path, status |-> g.status,
                                             executed |-> FALSE, ret |-> g.value])]

\* Every call so far began while no other call was in flight and ended by
\* itself, and no call is in flight.
Sequential ==
    /\ DOMAIN inflight = {}
    /\ \A i \in Idx : log[i].alone /\ log[i].ret # Exc("CancelledError")

C15_AsyncLikeSync ==
    Sequential =>
       LET r == SyncRun(Len(log))
       IN  /\ \A i \in Idx :
                 /\ r.out[i].status = log[i].status
                 /\ r.out[i].executed = log[i].executed
                 /\ r.out[i].ret = log[i].ret
                 /\ r.out[i].path \in DOMAIN r.files <=> log[i].path \in DOMAIN files
                 /\ log[i].path \in DOMAIN files =>
                       r.files[r.out[i].path] = files[log[i].path]
           /\ Cardinality(DOMAIN r.files) = Cardinality(DOMAIN files)

\* Three calls of a coroutine function one after the other: a miss, a hit
\* on its entry, and a miss with another argument.
C15_Witness ==
    /\ Sequential
    /\ Len(log) >= 3
    /\ is_async(log[1].w)
    /\ log[1].executed /\ ~log[2].executed /\ log[2].path = log[1].path
    /\ log[3].executed /\ log[3].path # log[1].path

(***************************************************************************)
(* C16.  A ttl that is zero or negative is rejected when the decorator is  *)
(* applied: the application raises, no wrapper exists, no call was made    *)
(* and the storage was not accessed.                                       *)
(***************************************************************************)
C16_TtlRejected ==
    \A d \in decorated :
       d.ttl.given /\ d.ttl.secs <= 0 =>
          /\ d.outcome = "ViolationError"
          /\ program = {} /\ log = <<>> /\ files = EmptyFiles /\ ~dir_exists

(***************************************************************************)
(* C17.  An ignore that names a parameter the callable does not have is    *)
(* rejected when the callable is wrapped: the application raises, no       *)
(* wrapper exists, no call was made and the storage was not accessed.      *)
(***************************************************************************)
C17_IgnoreRejected ==
    \A d \in decorated :
       ~(d.ignore \subseteq ParamNames(d.fn)) =>
          /\ d.outcome = "ViolationError"
          /\ program = {} /\ log = <<>> /\ files = EmptyFiles /\ ~dir_exists

(***************************************************************************)
(* C18.  A call whose callable raises ends with that exception, after a    *)
(* lookup that found no entry or an expired one, and leaves the storage    *)
(* as it was; and the next call that derives the same path, no entry       *)
(* having been stored there in between, executes the callable again.       *)
(***************************************************************************)
C18_FailureLeavesStorage ==
    [][Len(log') > Len(log) =>
          LET e == log'[Len(log')]
          IN  /\ Raised(e) =>
                    /\ Intercepted(e.status) /\ e.executed
                    /\ files' = files /\ dir_exists' = dir_exists
              /\ \A i \in Idx :
                    (/\ Raised(log[i])
                     /\ log[i].path = e.path
                     /\ \A k \in Idx :
                           k > i /\ log[k].path = e.path => Raised(log[k]))
                       => e.executed]_vars

\* The callable raised on an expired entry, which therefore is still there,
\* and the next call with the same key executed the callable and returned
\* its value.
C18_Witness ==
    \E i, j \in Idx :
       /\ i < j
       /\ Raised(log[i]) /\ log[i].status = "CacheExpired"
       /\ log[j].path = log[i].path
       /\ log[j].executed /\ ~Raised(log[j])
       /\ log[j].path \in DOMAIN files

(***************************************************************************)
(* C19.  Cancelling a call of a coroutine function while the callable is   *)
(* executing leaves the storage as it was, and the storage changes only    *)
(* in the step in which a callable has returned its value, by the entry    *)
(* of that value: a suspended or cancelled call has written nothing.       *)
(***************************************************************************)
Cancelled(e) == e.ret = Exc("CancelledError")

C19_CancelLeavesStorage ==
    [][/\ (Len(log') > Len(log) /\ Cancelled(log'[Len(log')])) =>
             files' = files /\ dir_exists' = dir_exists
       /\ files' # files =>
             /\ Len(log') > Len(log)
             /\ LET e == log'[Len(log')]
                IN  /\ e.executed
                    /\ e.ret = Body(e.w, e.args, e.kwargs)
                    /\ files'[e.path].data = dumps(e.w.serializer, e.ret)]_vars

\* Of two calls in flight at the same time one was cancelled and the other
\* stored its entry; the path of the cancelled call has no entry.
C19_Witness ==
    \E i, j \in Idx :
       /\ Cancelled(log[i]) /\ ~log[i].alone
       /\ log[i].path \notin DOMAIN files
       /\ log[j].executed /\ ~Cancelled(log[j])
       /\ log[j].path \in DOMAIN files

(***************************************************************************)
(* C20.  Only FileNotFoundError and CacheExpired are intercepted.  A call  *)
(* whose lookup fails otherwise (storage.read raises, or loads raises on   *)
(* an undecodable entry) ends with that exception without executing the    *)
(* callable and without writing; a call whose store fails (dumps or        *)
(* storage.write raises) ends with that exception after one execution,     *)
(* and no entry is written.                                                *)
(***************************************************************************)
LookupFailed(e) == e.status \notin {"ok", "FileNotFoundError", "CacheExpired", "NoCache"}
StoreFailed(e) == e.ret \in {Exc("TypeError"), Exc("OSError")}

C20_OnlyMissesIntercepted ==
    [][Len(log') > Len(log) =>
          LET e == log'[Len(log')]
          IN  /\ Len(log') = Len(log) + 1
              /\ LookupFailed(e) =>
                    /\ e.ret = Exc(e.status)
                    /\ ~e.executed
                    /\ files' = files /\ dir_exists' = dir_exists
              /\ StoreFailed(e) =>
                    /\ Intercepted(e.status) /\ e.executed
                    /\ files' = files]_vars

\* A call found the entry of an earlier call undecodable: it ended with the
\* exception of loads, did not execute, and the entry is as it was written.
C20_Witness ==
    \E i, j \in Idx :
       /\ i < j
       /\ log[i].executed /\ log[j].path = log[i].path
       /\ log[j].status = "DecodeError" /\ log[j].ret = DecodeError
       /\ ~log[j].executed
       /\ files[log[j].path].data = dumps(log[i].w.serializer, log[i].ret)

(***************************************************************************)
(* C24.  clear() ends without an error and leaves no entry and no          *)
(* namespace, whatever the namespace holds; and clear() on what it left    *)
(* (an absent namespace) ends without an error too and leaves it absent.   *)
(***************************************************************************)
C24_ClearIsIdempotent ==
    LET once == FileStorage_clear(files, dir_exists)
        twice == FileStorage_clear(once.files, once.exists)
    IN  /\ once.status = "ok" /\ DOMAIN once.files = {} /\ ~once.exists
        /\ twice.status = "ok" /\ DOMAIN twice.files = {} /\ ~twice.exists

\* Entries were written and clear() has removed them and the directory.
C24_Witness == largest > 0 /\ DOMAIN files = {} /\ ~dir_exists

(***************************************************************************)
(* C26.  read(path, deadline) has three outcomes: FileNotFoundError when   *)
(* there is no entry at path, with or without a deadline and before any    *)
(* test of expiry; CacheExpired when a deadline is given and the entry was *)
(* modified strictly before it; the stored bytes otherwise, an entry       *)
(* modified exactly at the deadline included.                              *)
(***************************************************************************)
C26_ReadOutcomes ==
    \A path \in RawPaths : \A dl \in Deadlines :
       read(files, path, dl) =
          IF path \notin DOMAIN files
          THEN [status |-> "FileNotFoundError", data |-> NoData]
          ELSE IF dl.set /\ files[path].mtime < dl.at
               THEN [status |-> "CacheExpired", data |-> NoData]
               ELSE [status |-> "ok", data |-> files[path].data]

\* One path has no entry and another has an entry for which there are
\* deadlines before, at and after its modification time.
C26_Witness ==
    /\ DOMAIN files # RawPaths
    /\ \E p \in DOMAIN files :
          /\ read(files, p, [set |-> TRUE, at |-> files[p].mtime - 1]).status = "ok"
          /\ read(files, p, [set |-> TRUE, at |-> files[p].mtime]).status = "ok"
          /\ read(files, p, [set |-> TRUE, at |-> files[p].mtime + 1]).status
                = "CacheExpired"
          /\ files[p].mtime > 0 /\ files[p].mtime < MaxTime

(***************************************************************************)
(* C27.  Read-your-write: after write(path, data), read(path, None)        *)
(* returns data: for a new path and for an overwritten one, with and       *)
(* without an eviction pass in this write, and for data larger than        *)
(* max_size.                                                               *)
(***************************************************************************)
C27_ReadYourWrite ==
    \A path \in RawPaths : \A data \in RawData :
       \A order \in SortedByAtime(files) :
          read(write(files, path, data, now, max_size, dir_stat, order),
               path, NoDeadline) = [status |-> "ok", data |-> data]

\* An entry larger than max_size is in the namespace, just written by a
\* write that ran an eviction pass.
C27_Witness ==
    \E p \in DOMAIN files :
       /\ files[p].data.len > max_size
       /\ files[p].mtime = now /\ now > 0
       /\ Evicts([q \in DOMAIN files \ {p} |-> files[q]], files[p].data,
                 max_size, dir_stat)

(***************************************************************************)
(* C28.  An eviction pass with target max_size keeps exactly the prefix of *)
(* the entries, most recently accessed first, whose accumulated size is    *)
(* below the target: an entry is kept if and only if its size plus the     *)
(* sizes of the entries before it in that order is below max_size.         *)
(***************************************************************************)
RECURSIVE Accumulated(_, _, _)
Accumulated(fs, order, k) ==
    IF k = 0 THEN 0 ELSE fs[order[k]].data.len + Accumulated(fs, order, k - 1)

\* A write of some data would run an eviction pass now.
PassCanRun == \E data \in RawData : Evicts(files, data, max_size, dir_stat)

C28_KeepsPrefix ==
    PassCanRun =>
       \A order \in SortedByAtime(files) :
          LET kept == DOMAIN delete_least_recently_used(files, max_size, order)
          IN  \A k \in 1..Len(order) :
                 order[k] \in kept <=> Accumulated(files, order, k) < max_size

(***************************************************************************)
(* C29.  Least recently used first: in an eviction pass no deleted entry   *)
(* has a more recent access time than an entry that is kept.               *)
(***************************************************************************)
C29_LeastRecentFirst ==
    PassCanRun =>
       \A order \in SortedByAtime(files) :
          LET kept == DOMAIN delete_least_recently_used(files, max_size, order)
          IN  \A d \in DOMAIN files \ kept : \A k \in kept :
                 files[d].atime <= files[k].atime

\* A pass that keeps an entry and deletes one that was accessed earlier.
C29_Witness ==
    /\ PassCanRun
    /\ \E order \in SortedByAtime(files) :
          LET kept == DOMAIN delete_least_recently_used(files, max_size, order)
          IN  \E d \in DOMAIN files \ kept : \E k \in kept :
                 files[d].atime < files[k].atime

(***************************************************************************)
(* C30.  write(path, data) runs an eviction pass exactly when max_size is  *)
(* set and the total size of the entries of the namespace plus len(data)   *)
(* exceeds max_size; otherwise it deletes no entry and changes no entry    *)
(* but the one at path.                                                    *)
(***************************************************************************)
C30_PassOnlyOverBudget ==
    \A path \in RawPaths : \A data \in RawData :
       LET over == max_size # 0 /\ TotalSize(files) + data.len > max_size
       IN  /\ Evicts(files, data, max_size, dir_stat) <=> over
           /\ ~over =>
                 \A order \in SortedByAtime(files) :
                    LET after == write(files, path, data, now, max_size,
                                       dir_stat, order)
                    IN  /\ DOMAIN after = DOMAIN files \cup {path}
                        /\ \A p \in DOMAIN files \ {path} : after[p] = files[p]

(***************************************************************************)
(* C25.  After storage.clear() the next call that derives the path of an   *)
(* entry stored earlier finds no entry: it executes the callable and, when *)
(* the callable returns, the namespace exists again and holds the entry of *)
(* the value returned; and the call after it that derives the same path,   *)
(* made while the entry has not expired, is a hit that does not execute    *)
(* the callable.                                                           *)
(***************************************************************************)
C25_MissAfterClear ==
    [][Len(log') > Len(log) =>
          LET e == log'[Len(log')]
          IN  /\ (/\ ~dir_exists
                  /\ \E i \in Idx : log[i].executed /\ log[i].path = e.path)
                    => /\ e.status = "FileNotFoundError" /\ e.executed
                       /\ ~Raised(e) =>
                             /\ dir_exists'
                             /\ e.path \in DOMAIN files'
                             /\ files'[e.path].data = dumps(e.w.serializer, e.ret)
              /\ (/\ dir_exists
                  /\ Len(log) > 0
                  /\ log[Len(log)].executed /\ ~Raised(log[Len(log)])
                  /\ log[Len(log)].path = e.path
                  /\ e.w.ttl # 0 => e.at <= log[Len(log)].end + e.w.ttl)
                    => e.status = "ok" /\ ~e.executed]_vars

\* A call stored an entry, clear() removed it, the next call with the same
\* key executed again and the call after that was a hit.
C25_Witness ==
    \E i, j, k \in Idx :
       /\ i < j /\ j < k
       /\ log[i].w.ttl = 0
       /\ log[i].executed /\ log[i].status = "FileNotFoundError"
       /\ log[j].path = log[i].path
       /\ log[j].executed /\ log[j].status = "FileNotFoundError"
       /\ log[k].path = log[i].path
       /\ ~log[k].executed /\ log[k].status = "ok"

(***************************************************************************)
(* C23.  A call through a wrapper made with a new Cache object over the    *)
(* same storage location, of a callable with the same source and           *)
(* serializer and with the same non-ignored arguments as a call that       *)
(* executed and stored through the earlier Cache object, is served from    *)
(* that entry and does not execute the callable (no ttl being set).        *)
(***************************************************************************)
C23_ServedThroughNewCache ==
    \A d \in decorated : \A i, j \in Idx :
       (/\ i <= d.calls /\ d.calls < j
        /\ log[i].w = log[j].w /\ log[j].w.ttl = 0
        /\ DiffParams(i, j) \subseteq log[j].w.ignore
        /\ log[i].executed)
          => /\ log[j].path = log[i].path
             /\ log[j].status = "ok" /\ ~log[j].executed

(***************************************************************************)
(* C21.  At most one entry per key under concurrency: when the calls made  *)
(* have returned, the path of every call that executed holds one entry,    *)
(* and the entry is the whole of what the last write to that path wrote,   *)
(* whatever the interleaving of the calls was.                             *)
(***************************************************************************)
\* The call executed the callable and came to the end of Cache._set.
Wrote(e) == e.executed /\ ~Raised(e) /\ ~Cancelled(e) /\ ~StoreFailed(e)

C21_OneWholeEntry ==
    DOMAIN inflight = {} =>
       \A j \in Idx :
          (/\ Wrote(log[j])
           /\ ~\E k \in Idx : k > j /\ Wrote(log[k]) /\ log[k].path = log[j].path)
             => /\ log[j].path \in DOMAIN files
                /\ files[log[j].path].data = dumps(log[j].w.serializer, log[j].ret)

(***************************************************************************)
(* C22.  No single flight: a call whose lookup finds no entry executes the *)
(* callable, also when it begins while a call with the same key is in      *)
(* flight, so that two calls in flight with one key both execute; and each *)
(* of them, unless its callable raises or it is cancelled, stores and      *)
(* returns the value of its own execution without an error.                *)
(***************************************************************************)
C22_NoSingleFlight ==
    /\ \A t \in DOMAIN inflight : Intercepted(inflight[t].status)
    /\ \A i \in Idx :
          Intercepted(log[i].status) =>
             /\ log[i].executed
             /\ ~(Raised(log[i]) \/ Cancelled(log[i])) =>
                   log[i].ret = Body(log[i].w, log[i].args, log[i].kwargs)

\* Two calls with one key were in flight at the same time on a storage that
\* had no entry for it: both missed, both executed and both returned the
\* value, and the path has its entry.
C22_Witness ==
    \E i, j \in Idx :
       /\ i < j /\ log[i].path = log[j].path
       /\ log[i].status = "FileNotFoundError" /\ log[j].status = "FileNotFoundError"
       /\ log[i].executed /\ log[j].executed
       /\ ~log[i].alone \/ ~log[j].alone
       /\ log[i].ret = Body(log[i].w, log[i].args, log[i].kwargs)
       /\ log[j].ret = Body(log[j].w, log[j].args, log[j].kwargs)
       /\ log[j].path \in DOMAIN files

(***************************************************************************)
(* C34.  A call of a wrapped free function is never treated as a method    *)
(* call: whatever the type of its first positional argument, the path it   *)
(* derives is the path of a function (no class name), its key is the hash  *)
(* over all its arguments, the first included, and no instance identifier; *)
(* and only a call of a method has its first argument stripped.            *)
(***************************************************************************)
C34_FreeFunctionNeverMethod ==
    \A i \in Idx :
       LET e == log[i]
       IN  /\ e.w.cls = "" =>
                e.path = _get_filename(e.w, FALSE, "",
                            _get_hash(e.w, e.args, e.kwargs, e.w.serializer,
                                      e.w.ignore, NoneId, TRUE),
                            e.w.serializer)
           /\ is_instance_method(e.w, e.args) => e.w.cls # ""

(***************************************************************************)
(* C40.  The derived key does not depend on the order in which the keyword *)
(* arguments are written at the call site: two calls of one callable with  *)
(* the same positional arguments and the same keyword arguments, written   *)
(* in any order, derive the same path, and (no ttl being set) the later    *)
(* one is served from the entry the earlier one stored.                    *)
(***************************************************************************)
C40_KeywordOrder ==
    \A i, j \in Idx :
       (/\ i < j
        /\ log[i].w = log[j].w /\ log[i].id = log[j].id
        /\ log[i].args = log[j].args
        /\ ItemSet(log[i].kwargs) = ItemSet(log[j].kwargs))
          => /\ log[j].path = log[i].path
             /\ (log[j].w.ttl = 0 /\ Wrote(log[i]))
                   => log[j].status = "ok" /\ ~log[j].executed

\* f(key=.., ignore_this=..) and then f(ignore_this=.., key=..), both
\* parameters hashed: the second call was a hit.
C40_Witness ==
    /\ Len(log) = 2
    /\ log[1].w = log[2].w /\ log[1].w.ignore = {}
    /\ Len(log[1].kwargs) = 2
    /\ log[1].kwargs # log[2].kwargs
    /\ ItemSet(log[1].kwargs) = ItemSet(log[2].kwargs)
    /\ log[1].executed
    /\ log[2].status = "ok" /\ ~log[2].executed

(***************************************************************************)
(* C39.  Under per-instance scoping a call on an instance never returns a  *)
(* value computed by a call on another instance: a call of a method that   *)
(* is served from an entry is a call on the instance (the same object at   *)
(* the same address) whose call stored that entry, also when the instance  *)
(* was created after the storing one was destroyed.                        *)
(***************************************************************************)
C39_NoCrossInstance ==
    \A i, j \in Idx :
       (/\ i < j
        /\ log[j].w.cls # "" /\ log[j].w.per_instance
        /\ log[j].status = "ok" /\ ~log[j].executed
        /\ Wrote(log[i]) /\ log[i].path = log[j].path)
          => log[i].args[1] = log[j].args[1] /\ log[i].id = log[j].id

(***************************************************************************)
(* C35.  A call whose callable returned a value the serializer cannot      *)
(* encode ends with the exception of dumps (a call returns the value of    *)
(* its execution only if the serializer takes it, and then the entry holds *)
(* it), after one execution, and leaves the storage as it was: no entry    *)
(* created, overwritten or evicted, no directory made; and the next call   *)
(* that derives the same path, nothing having been stored there since,     *)
(* executes the callable again.                                            *)
(***************************************************************************)
C35_UnserializableLeavesStorage ==
    [][Len(log') > Len(log) =>
          LET e == log'[Len(log')]
          IN  /\ (e.executed /\ e.ret.type \notin {"TypeError", "CallableError", "OSError"})
                    => /\ Serializable(e.w.serializer, e.ret)
                       /\ files'[e.path].data = dumps(e.w.serializer, e.ret)
              /\ e.ret = Exc("TypeError") =>
                    /\ Intercepted(e.status) /\ e.executed
                    /\ files' = files /\ dir_exists' = dir_exists
              /\ \A i \in Idx :
                    (/\ log[i].ret = Exc("TypeError")
                     /\ log[i].path = e.path
                     /\ \A k \in Idx :
                           k > i /\ log[k].path = e.path
                              => log[k].ret = Exc("TypeError"))
                       => e.executed]_vars

\* On a storage with a max_size a call stored its value; when the entry had
\* expired, a call with the same key got a value that cannot be encoded, and
\* the entry is still what the first call stored; the call after that
\* executed again.
C35_Witness ==
    /\ max_size # 0
    /\ \E i, j, k \in Idx :
          /\ i < j /\ j < k
          /\ Wrote(log[i])
          /\ log[j].path = log[i].path /\ log[j].status = "CacheExpired"
          /\ log[j].ret = Exc("TypeError")
          /\ log[k].path = log[i].path /\ log[k].executed
          /\ files[log[i].path].mtime = log[i].end

(***************************************************************************)
(* C36.  A lookup changes neither the set of entries nor their bytes nor   *)
(* their modification times, whatever it finds.  The modification time of  *)
(* an entry is the time of the last store to its path, however often it    *)
(* was read since; with a ttl T a lookup finds the entry expired exactly   *)
(* when it is made later than T after that time; and an expired entry is   *)
(* left in the storage by the call that found it expired unless that call  *)
(* stores its own value.                                                   *)
(***************************************************************************)
C36_LookupLeavesEntries ==
    [][/\ \A i \in Idx :
             (/\ Wrote(log[i])
              /\ log[i].path \in DOMAIN files
              /\ \A k \in Idx : k > i /\ log[k].path = log[i].path => ~Wrote(log[k]))
                => files[log[i].path].mtime = log[i].end
       /\ Len(log') > Len(log) =>
             LET e == log'[Len(log')]
             IN  /\ e.path \notin DOMAIN files => e.status = "FileNotFoundError"
                 /\ (e.path \in DOMAIN files /\ e.w.ttl # 0) =>
                       e.status = IF files[e.path].mtime + e.w.ttl < e.at
                                  THEN "CacheExpired" ELSE "ok"
                 /\ ~Wrote(e) =>
                       /\ DOMAIN files' = DOMAIN files
                       /\ \A p \in DOMAIN files :
                             /\ files'[p].data = files[p].data
                             /\ files'[p].mtime = files[p].mtime]_vars

\* An entry was read (its access time is later than its modification time)
\* by a hit within the ttl, and a later call found it expired, one ttl after
\* its write.
C36_Witness ==
    \E i, j, k \in Idx :
       /\ i < j /\ j < k
       /\ Wrote(log[i])
       /\ log[j].path = log[i].path /\ log[j].status = "ok" /\ log[j].at > log[i].end
       /\ log[k].path = log[i].path /\ log[k].status = "CacheExpired"
       /\ log[k].at = log[i].end + log[i].w.ttl + 1
       /\ log[k].ret = Exc("TypeError")
       /\ files[log[i].path].mtime = log[i].end
       /\ files[log[i].path].atime = log[j].at

(***************************************************************************)
(* C31.  Every invocation follows KEY_DERIVED, LOOKUP and then HIT, RETURN *)
(* or MISS, EXECUTE, STORE, RETURN.  Every step of the program is the      *)
(* passing of time or one of three steps of one invocation: a lookup with  *)
(* the derived key that misses (no entry, or an expired one), after which  *)
(* the callable is executing and nothing has been written; a lookup that   *)
(* does not miss, which returns what the entry holds without executing and *)
(* without writing; the end of an execution, which belongs to a lookup     *)
(* that missed, happens once per invocation, and either stores the value   *)
(* of the callable at the path (one write, at the time the execution has   *)
(* ended) and returns it, or ends with an exception and writes nothing.    *)
(***************************************************************************)
C31_Miss ==
    /\ log' = log /\ files' = files
    /\ \E t \in DOMAIN inflight' \ DOMAIN inflight :
          LET c == inflight'[t]
          IN  /\ DOMAIN inflight' = DOMAIN inflight \cup {t}
              /\ \A u \in DOMAIN inflight : inflight'[u] = inflight[u]
              /\ c.path = KeyPath(c.w, c.args, c.kwargs, c.id)
              /\ c.at = now
              /\ c.status = _get(files, c.path, c.w.serializer,
                                 deadline(c.w, now), "none").status
              /\ c.status \in {"FileNotFoundError", "CacheExpired"}

C31_Hit ==
    /\ inflight' = inflight /\ files' = files
    /\ Len(log') = Len(log) + 1 /\ SubSeq(log', 1, Len(log)) = log
    /\ LET e == log'[Len(log')]
       IN  /\ e.path = KeyPath(e.w, e.args, e.kwargs, e.id)
           /\ e.status = "ok" /\ ~e.executed
           /\ e.path \in DOMAIN files
           /\ ~(e.w.ttl # 0 /\ files[e.path].mtime + e.w.ttl < now)
           /\ e.ret = loads(e.w.serializer, files[e.path].data)

C31_End ==
    /\ Len(log') = Len(log) + 1 /\ SubSeq(log', 1, Len(log)) = log
    /\ \E t \in DOMAIN inflight :
          LET c == inflight[t]
              e == log'[Len(log')]
          IN  /\ inflight' = [u \in DOMAIN inflight \ {t} |-> inflight[u]]
              /\ e.w = c.w /\ e.args = c.args /\ e.kwargs = c.kwargs
              /\ e.path = c.path /\ e.at = c.at /\ e.status = c.status
              /\ e.executed /\ e.end = now
              /\ \/ /\ e.ret = Body(e.w, e.args, e.kwargs)
                    /\ files' = write_file(files, e.path,
                                           dumps(e.w.serializer, e.ret), now)
                 \/ /\ e.ret \in {Exc("CallableError"), Exc("CancelledError")}
                    /\ files' = files

C31_InvocationStateMachine ==
    [][\/ now' # now /\ UNCHANGED <<files, log, inflight>>
       \/ now' = now /\ C31_Miss
       \/ now' = now /\ C31_Hit
       \/ now' = now /\ C31_End]_vars

\* A call missed, executed and stored; a second call with the same key was a
\* hit; when the entry had expired a third call executed and stored again,
\* and the entry is the one of the third call.
C31_Witness ==
    \E i, j, k \in Idx :
       /\ i < j /\ j < k
       /\ log[j].path = log[i].path /\ log[k].path = log[i].path
       /\ log[i].status = "FileNotFoundError" /\ Wrote(log[i])
       /\ log[j].status = "ok" /\ ~log[j].executed /\ log[j].ret = log[i].ret
       /\ log[k].status = "CacheExpired" /\ Wrote(log[k])
       /\ files[log[k].path].mtime = log[k].end

(***************************************************************************)
(* C32.  A call of a wrapped coroutine function is suspended only at the   *)
(* await of the callable on a miss: every call in flight has looked up,    *)
(* missed and not begun to store; a call that did not miss was never in    *)
(* flight; and whatever calls are in flight, every entry of the storage is *)
(* the whole of what one completed store wrote, so that no step of another *)
(* coroutine falls inside a lookup or inside a store.                      *)
(***************************************************************************)
C32_SuspendedOnlyAtAwait ==
    /\ \A t \in DOMAIN inflight :
          /\ inflight[t].status \in {"FileNotFoundError", "CacheExpired"}
          /\ DOMAIN inflight[t] =
                {"w", "args", "kwargs", "id", "path", "at", "status", "alone"}
    /\ \A i \in Idx : ~log[i].executed => log[i].end = log[i].at
    /\ \A p \in DOMAIN files :
          \E i \in Idx :
             /\ Wrote(log[i]) /\ log[i].path = p
             /\ files[p].data = dumps(log[i].w.serializer, log[i].ret)

\* Two calls with one key were in flight together; one has stored its entry
\* and the other is still suspended at its await.
C32_Witness ==
    \E t \in DOMAIN inflight : \E i \in Idx :
       /\ inflight[t].path = log[i].path
       /\ Wrote(log[i]) /\ ~log[i].alone
       /\ inflight[t].at <= log[i].end
       /\ log[i].path \in DOMAIN files

(***************************************************************************)
(* C33.  Concurrent eviction is tolerated: no call of write ends with an   *)
(* exception, whatever the interleaving of the passes; and when the last   *)
(* two writes, to two paths, overlapped (the later to end began before the *)
(* earlier ended) and have both ended, both their entries are in the       *)
(* namespace.                                                              *)
(***************************************************************************)
C33_ConcurrentEvictionTolerated ==
    /\ \A i \in Idx : log[i].ret = VNone
    /\ (DOMAIN inflight = {} /\ Len(log) >= 2) =>
          LET j == Len(log)
              i == Len(log) - 1
          IN  (log[j].began < i /\ log[i].path # log[j].path)
                 => /\ log[i].path \in DOMAIN files
                    /\ files[log[i].path].data = log[i].data
                    /\ log[j].path \in DOMAIN files
                    /\ files[log[j].path].data = log[j].data

(***************************************************************************)
(* C38.  A lookup of an entry that an eviction pass or clear() deletes,    *)
(* before the modification-time check or between the check and the byte    *)
(* read, behaves as a miss: a call that finds no entry at a path where a   *)
(* call that had ended before it began stored one has executed the         *)
(* callable and returned its value, not ended with an error.               *)
(***************************************************************************)
C38_RacingLookupIsMiss ==
    \A j \in Idx :
       (/\ log[j].status = "FileNotFoundError"
        /\ \E i \in Idx :
              /\ i <= log[j].began /\ log[i].path = log[j].path
              /\ log[i].executed
              /\ log[i].ret = Body(log[i].w, log[i].args, log[i].kwargs))
          => /\ log[j].executed
             /\ log[j].ret = Body(log[j].w, log[j].args, log[j].kwargs)

(***************************************************************************)
(* C37.  Cache coherence: every entry holds serializer.dumps(v) of a value *)
(* v returned by a completed execution of the wrapped callable that        *)
(* derived the key of the entry's path, and a hit returns a value computed *)
(* by an execution with the same source text, the same serializer and the  *)
(* same values of the parameters that are not ignored (the instance of a   *)
(* method with per_instance=False counts as ignored).                      *)
(***************************************************************************)
C37_CacheCoherence ==
    /\ \A f \in DOMAIN files :
          \E i \in Idx :
             /\ log[i].executed /\ log[i].path = f
             /\ files[f].data = dumps(log[i].w.serializer, log[i].ret)
    /\ \A j \in Idx :
          log[j].status = "ok" /\ ~log[j].executed =>
             \E i \in Idx :
                /\ i < j /\ log[i].executed /\ log[i].path = log[j].path
                /\ log[i].w.source = log[j].w.source
                /\ log[i].w.serializer = log[j].w.serializer
                /\ DiffParams(i, j) \subseteq
                      log[j].w.ignore
                         \cup (IF log[j].w.cls # "" /\ ~log[j].w.per_instance
                               THEN {log[j].w.params[1].name} ELSE {})

====
